---------------------------- MODULE Spec2Model ----------------------------
(***************************************************************************)
(* Model of the depth-first property traveller (package dfpt).             *)
(*                                                                         *)
(* A Traveller is built once from an adapter (NewTraveller) and then walks *)
(* values (Traverse / _traverse / _call).  Values are nodes of a small     *)
(* heap, types are Go type names, and every handler call made through       *)
(* reflect is recorded in the variable calls.                              *)
(***************************************************************************)
EXTENDS Integers, Sequences, FiniteSets, TLC

(***************************************************************************)
(* Bounds of the model.                                                    *)
(***************************************************************************)
MaxChain == 2   \* longest chain of pointers in front of a value
MaxLen   == 2   \* longest slice
MaxKeys  == 2   \* largest map
MaxWalks == 2   \* Traverse calls made on one Traveller
MaxDepth == 5   \* deepest stack of _traverse activations followed
MaxFields == 4  \* most fields of a struct type handed to the StructPropertier
MaxOps == 4     \* calls made on one TravContext

(***************************************************************************)
(* Small helpers on sequences.                                             *)
(***************************************************************************)
Range(s) == { s[i] : i \in DOMAIN s }

RECURSIVE SeqOfSet(_)
\* the numbers of a finite set of integers, in increasing order
SeqOfSet(S) ==
    IF S = {} THEN <<>>
    ELSE LET m == CHOOSE x \in S : \A y \in S : x <= y
         IN  <<m>> \o SeqOfSet(S \ {m})

\* every ordering of the numbers 1..n
Perms(n) == { p \in [1..n -> 1..n] : \A i, j \in 1..n : p[i] = p[j] => i = j }

(***************************************************************************)
(* reflect.Type: a type is its Go name.  A leading "*" makes a pointer     *)
(* type; every other type is described by BaseTypes.                       *)
(***************************************************************************)
NoField == <<>>

\* a struct field: its name, whether it is exported (PkgPath == ""), its type
\* and its tags `rtlorder:"ro"` and `rtl:"rtl"`
FldTag(n, e, t, ro, rtl) ==
    [name |-> n, exported |-> e, typ |-> t, rtlorder |-> ro, rtl |-> rtl]

Fld(n, e, t, ro) == FldTag(n, e, t, ro, "")

BaseTypes ==
    [ int          |-> [kind |-> "Int",    named |-> TRUE,  under |-> "int",
                        methods |-> {},          fields |-> NoField],
      string       |-> [kind |-> "String", named |-> TRUE,  under |-> "string",
                        methods |-> {},          fields |-> NoField],
      int32        |-> [kind |-> "Int32",  named |-> TRUE,  under |-> "int32",
                        methods |-> {},          fields |-> NoField],
      MyInt        |-> [kind |-> "Int",    named |-> TRUE,  under |-> "int",
                        methods |-> {"String"},  fields |-> NoField],
      IntSlice     |-> [kind |-> "Slice",  named |-> FALSE, under |-> "[]int",
                        methods |-> {},          fields |-> NoField],
      IntArray     |-> [kind |-> "Array",  named |-> FALSE, under |-> "[2]int",
                        methods |-> {},          fields |-> NoField],
      IntList      |-> [kind |-> "Slice",  named |-> TRUE,  under |-> "[]int",
                        methods |-> {},          fields |-> NoField],
      PtrSlice     |-> [kind |-> "Slice",  named |-> FALSE, under |-> "[]*int",
                        methods |-> {},          fields |-> NoField],
      StrIntMap    |-> [kind |-> "Map",    named |-> FALSE, under |-> "map[string]int",
                        methods |-> {},          fields |-> NoField],
      S            |-> [kind |-> "Struct", named |-> TRUE,  under |-> "S",
                        methods |-> {},
                        fields |-> << Fld("A", TRUE,  "int",   ""),
                                      Fld("x", FALSE, "int",   ""),
                                      Fld("P", TRUE,  "*int",  ""),
                                      Fld("B", TRUE,  "MyInt", "") >>],
      Node         |-> [kind |-> "Struct", named |-> TRUE,  under |-> "Node",
                        methods |-> {},
                        fields |-> << Fld("V",    TRUE, "int",   ""),
                                      Fld("Next", TRUE, "*Node", "") >>],
      Inner0       |-> [kind |-> "Struct", named |-> TRUE,  under |-> "Inner0",
                        methods |-> {},
                        fields |-> << Fld("A", TRUE,  "int", "0"),
                                      Fld("E", TRUE,  "int", "5"),
                                      Fld("B", TRUE,  "int", "1"),
                                      Fld("C", TRUE,  "int", "3"),
                                      Fld("D", TRUE,  "int", "4"),
                                      Fld("x", FALSE, "int", ""),
                                      Fld("y", FALSE, "int", "") >>],
      Inner1       |-> [kind |-> "Struct", named |-> TRUE,  under |-> "Inner1",
                        methods |-> {},
                        fields |-> << Fld("A", TRUE,  "int", "0"),
                                      Fld("B", TRUE,  "int", ""),
                                      Fld("C", TRUE,  "int", "3") >>],
      T            |-> [kind |-> "Struct", named |-> TRUE,  under |-> "T",
                        methods |-> {},
                        fields |-> << Fld("x", FALSE, "int",  ""),
                                      Fld("A", TRUE,  "int",  ""),
                                      Fld("P", TRUE,  "*int", "") >>],
      Stringer     |-> [kind |-> "Interface", named |-> TRUE, under |-> "Stringer",
                        methods |-> {"String"},  fields |-> NoField],
      Any          |-> [kind |-> "Interface", named |-> FALSE, under |-> "interface{}",
                        methods |-> {},          fields |-> NoField] ]

IsPtrType(t) == Len(t) >= 1 /\ SubSeq(t, 1, 1) = "*"

PtrTo(t) == "*" \o t

ElemType(t) == SubSeq(t, 2, Len(t))

RECURSIVE PtrN(_, _)
\* n stars in front of t
PtrN(n, t) == IF n = 0 THEN t ELSE PtrTo(PtrN(n - 1, t))

\* reflect.Type.Kind
KindOf(t) == IF IsPtrType(t) THEN "Ptr" ELSE BaseTypes[t].kind

\* the method set of a type: a pointer to a defined non-interface type has
\* the methods of that type, any other pointer type has none
MethodSet(t) ==
    IF IsPtrType(t)
    THEN IF IsPtrType(ElemType(t)) \/ KindOf(ElemType(t)) = "Interface"
         THEN {} ELSE BaseTypes[ElemType(t)].methods
    ELSE BaseTypes[t].methods

IsNamed(t) == IF IsPtrType(t) THEN FALSE ELSE BaseTypes[t].named

Underlying(t) == IF IsPtrType(t) THEN t ELSE BaseTypes[t].under

\* reflect.Type.Implements(u), u an interface type
Implements(t, u) == BaseTypes[u].methods \subseteq MethodSet(t)

\* reflect.Type.AssignableTo(u)
AssignableTo(t, u) ==
    \/ t = u
    \/ Underlying(t) = Underlying(u) /\ (~IsNamed(t) \/ ~IsNamed(u))
         /\ KindOf(t) # "Interface" /\ KindOf(u) # "Interface"
    \/ KindOf(u) = "Interface" /\ Implements(t, u)

(***************************************************************************)
(* Names.  Go strings are TLA+ strings; reflect lists the methods of the   *)
(* adapter sorted by name (byte order).                                    *)
(***************************************************************************)
Alphabet == "*0123456789ABCDEFGHIJKLMNOPQRSTUVWXYZ_abcdefghijklmnopqrstuvwxyz"

Ord(c) == CHOOSE i \in 1..Len(Alphabet) : SubSeq(Alphabet, i, i) = c

RECURSIVE NameLess(_, _)
\* a < b for Go strings
NameLess(a, b) ==
    IF Len(b) = 0 THEN FALSE
    ELSE IF Len(a) = 0 THEN TRUE
    ELSE LET ca == Ord(SubSeq(a, 1, 1))
             cb == Ord(SubSeq(b, 1, 1))
         IN  IF ca # cb THEN ca < cb
             ELSE NameLess(SubSeq(a, 2, Len(a)), SubSeq(b, 2, Len(b)))

RECURSIVE MethodsOf(_)
\* reflect.Type.Method(i), i = 0..NumMethod()-1: the method set by name
MethodsOf(ms) ==
    IF ms = {} THEN <<>>
    ELSE LET m == CHOOSE x \in ms : \A y \in ms : y = x \/ NameLess(x.n, y.n)
         IN  <<m>> \o MethodsOf(ms \ {m})

(***************************************************************************)
(* Item types, prefixes and tables.                                        *)
(***************************************************************************)
ImplPrefix      == "ForImpl"
AssignPrefix    == "ForAssign"
KindPrefix      == "ForKind"
ContainerPrefix == "ForContainer"
NilPtrName      == "ForNilPtr"
IntXName        == "ForIntX"
UintXName       == "ForUintX"
_minPrefixLength == 7

Invalid == "Invalid"     \* reflect.Invalid
NilType == "nil"         \* a nil reflect.Type
NoMethod == -1           \* a reflect.Value that is not valid
NoErr == ""              \* a nil error

_kindMap ==
    [ Bool |-> "Bool", Int |-> "Int", Int8 |-> "Int8", Int16 |-> "Int16",
      Int64 |-> "Int64", Uint |-> "Uint", Uint8 |-> "Uint8",
      Uint16 |-> "Uint16", Uint32 |-> "Uint32", Uint64 |-> "Uint64",
      Uintptr |-> "Uintptr", Float32 |-> "Float32", Float64 |-> "Float64",
      Complex64 |-> "Complex64", Complex128 |-> "Complex128",
      Array |-> "Array", Chan |-> "Chan", Func |-> "Func",
      Interface |-> "Interface", Map |-> "Map", Ptr |-> "Ptr",
      Slice |-> "Slice", String |-> "String", Struct |-> "Struct",
      UnsafePointer |-> "UnsafePointer", Pointer |-> "Ptr" ]

_containers == {"Array", "Map", "Ptr", "Slice", "Struct"}

_typeOfString    == "string"
_typeOfBool      == "bool"
_typeOfInt       == "int"
_typeOfError     == "error"
_typeOfInterface == "Any"
_typeOfTravCtxPtr == "*TravContext"

HasPrefix(name, prefix) == SubSeq(name, 1, Len(prefix)) = prefix

\* ItemType.Which: the classification of a method name.  name[:12] on a
\* name shorter than ContainerPrefix is a slice out of range.
Which(name) ==
    IF Len(name) < _minPrefixLength
    THEN [itype |-> "Unknown", kind |-> Invalid, ok |-> FALSE, panic |-> FALSE]
    ELSE IF name = NilPtrName
    THEN [itype |-> "ForNilPtr", kind |-> Invalid, ok |-> TRUE, panic |-> FALSE]
    ELSE IF name = IntXName
    THEN [itype |-> "ForIntX", kind |-> Invalid, ok |-> TRUE, panic |-> FALSE]
    ELSE IF name = UintXName
    THEN [itype |-> "ForUintX", kind |-> Invalid, ok |-> TRUE, panic |-> FALSE]
    ELSE IF HasPrefix(name, ImplPrefix)
    THEN [itype |-> "ForImpl", kind |-> Invalid, ok |-> TRUE, panic |-> FALSE]
    ELSE IF Len(name) >= Len(AssignPrefix) /\ HasPrefix(name, AssignPrefix)
    THEN [itype |-> "ForAssign", kind |-> Invalid, ok |-> TRUE, panic |-> FALSE]
    ELSE IF HasPrefix(name, KindPrefix)
    THEN LET suffix == SubSeq(name, Len(KindPrefix) + 1, Len(name))
         IN  IF suffix \notin DOMAIN _kindMap \/ _kindMap[suffix] \in _containers
             THEN [itype |-> "Unknown", kind |-> Invalid, ok |-> FALSE, panic |-> FALSE]
             ELSE [itype |-> "ForKind", kind |-> _kindMap[suffix], ok |-> TRUE, panic |-> FALSE]
    ELSE IF Len(name) < Len(ContainerPrefix)
    THEN [itype |-> "Unknown", kind |-> Invalid, ok |-> FALSE, panic |-> TRUE]
    ELSE IF HasPrefix(name, ContainerPrefix)
    THEN LET suffix == SubSeq(name, Len(ContainerPrefix) + 1, Len(name))
         IN  IF suffix \notin DOMAIN _kindMap \/ _kindMap[suffix] \notin _containers
             THEN [itype |-> "Unknown", kind |-> Invalid, ok |-> FALSE, panic |-> FALSE]
             ELSE [itype |-> "ForContainer", kind |-> _kindMap[suffix], ok |-> TRUE, panic |-> FALSE]
    ELSE [itype |-> "Unknown", kind |-> Invalid, ok |-> FALSE, panic |-> FALSE]

\* ItemType.MatchValue for a reflect.Value of the kind val.kind, nil or not;
\* val.Type() panics on the invalid Value
MatchValue(i, val) ==
    IF i = "ForNilPtr"
    THEN IF ~val.valid THEN [match |-> FALSE, panic |-> TRUE]
         ELSE [match |-> val.kind = "Ptr" /\ val.nil, panic |-> FALSE]
    ELSE IF i = "ForIntX"
    THEN IF ~val.valid THEN [match |-> FALSE, panic |-> TRUE]
         ELSE [match |-> val.kind \in {"Int", "Int8", "Int16", "Uint32", "Int64"},
               panic |-> FALSE]
    ELSE IF i = "ForUintX"
    THEN IF ~val.valid THEN [match |-> FALSE, panic |-> TRUE]
         ELSE [match |-> val.kind \in {"Uint", "Uint8", "Uint16", "Uint32", "Uint64"},
               panic |-> FALSE]
    ELSE [match |-> FALSE, panic |-> FALSE]

\* ItemType.ParamLength
ParamLength(itype) ==
    IF itype \in {"ForImpl", "ForAssign", "ForKind", "ForNilPtr", "ForIntX", "ForUintX"}
    THEN 5
    ELSE IF itype = "ForContainer" THEN 7 ELSE 0

\* method.Func.Type().In(k) and Out(k), k counted from 0, receiver first
In(m, k) == m.ins[k + 1]
Out(m, k) == m.outs[k + 1]

\* ItemType.IsValidWithReceiver
IsValidWithReceiver(itype, m) ==
    IF Len(m.ins) # ParamLength(itype) + 1 THEN FALSE
    ELSE IF itype \in {"ForImpl", "ForAssign", "ForKind", "ForNilPtr", "ForIntX", "ForUintX"}
    THEN IF In(m, 1) # _typeOfTravCtxPtr \/ In(m, 2) # _typeOfInt
              \/ In(m, 3) # _typeOfInt \/ In(m, 4) # _typeOfString
         THEN FALSE
         ELSE IF Len(m.outs) # 1 \/ Out(m, 0) # _typeOfError THEN FALSE
         ELSE IF itype = "ForNilPtr" /\ In(m, 5) # _typeOfInterface THEN FALSE
         ELSE TRUE
    ELSE IF itype = "ForContainer"
    THEN IF In(m, 1) # _typeOfTravCtxPtr \/ In(m, 2) # _typeOfInt
              \/ In(m, 3) # _typeOfInt \/ In(m, 4) # _typeOfInt
              \/ In(m, 5) # _typeOfBool \/ In(m, 6) # _typeOfString
         THEN FALSE
         ELSE IF Len(m.outs) # 2 \/ Out(m, 0) # _typeOfBool \/ Out(m, 1) # _typeOfError
         THEN FALSE
         ELSE TRUE
    ELSE FALSE

\* parseReturns with the answer of every handler taken as that of a container
parseReturnsAsContainer(itype, outs) ==
    IF itype \in {"ForImpl", "ForAssign", "ForKind", "ForNilPtr", "ForIntX", "ForUintX"}
    THEN [goin |-> outs.goin, err |-> outs.err]
    ELSE IF itype = "ForContainer"
    THEN [goin |-> outs.goin, err |-> outs.err]
    ELSE [goin |-> FALSE, err |-> "unknown item type"]

\* parseReturns with true for the bool of a container handler
parseReturnsGoIn(itype, outs) ==
    IF itype \in {"ForImpl", "ForAssign", "ForKind", "ForNilPtr", "ForIntX", "ForUintX"}
    THEN [goin |-> FALSE, err |-> outs.err]
    ELSE IF itype = "ForContainer"
    THEN [goin |-> TRUE, err |-> outs.err]
    ELSE [goin |-> FALSE, err |-> "unknown item type"]

\* ItemType.parseReturns on the values a handler returned: outs.goin is
\* the bool of a container handler, outs.err its error
parseReturns(itype, outs) ==
    IF itype \in {"ForImpl", "ForAssign", "ForKind", "ForNilPtr", "ForIntX", "ForUintX"}
    THEN [goin |-> FALSE, err |-> outs.err]
    ELSE IF itype = "ForContainer"
    THEN [goin |-> outs.goin, err |-> outs.err]
    ELSE [goin |-> FALSE, err |-> "unknown item type"]

\* Less with the comparison of the declaration indexes turned around
LessLastFirst(is, i, j) ==
    IF is[i].o < is[j].o THEN TRUE
    ELSE IF is[i].o = is[j].o THEN is[i].i > is[j].i
    ELSE FALSE

\* orderItems.Less
Less(is, i, j) ==
    IF is[i].o < is[j].o THEN TRUE
    ELSE IF is[i].o = is[j].o THEN is[i].i < is[j].i
    ELSE FALSE

RECURSIVE SortItems(_)
\* sort.Sort(items): the items in the order Less defines
SortItems(is) ==
    IF Len(is) = 0 THEN <<>>
    ELSE LET k == CHOOSE a \in 1..Len(is) :
                     \A b \in 1..Len(is) : b = a \/ Less(is, a, b)
         IN  <<is[k]>> \o SortItems([x \in 1..(Len(is) - 1) |->
                                        IF x < k THEN is[x] ELSE is[x + 1]])

\* TraverseConf.Clone
Clone(c) ==
    [ IgnoreMissedBinding |-> c.IgnoreMissedBinding,
      Propertier          |-> c.Propertier,
      ContainerEnd        |-> c.ContainerEnd,
      PtrAutoGoIn         |-> c.PtrAutoGoIn ]

\* what the loop of NewTraveller has collected before it looks at a method
EmptyBuild ==
    [ items |-> <<>>, nilPtrMethod |-> NoMethod, typeMethods |-> <<>>,
      kindMethods |-> <<>>, err |-> NoErr, panic |-> FALSE ]

\* typeMethods and kindMethods are maps, kept as sequences of <<key, method>>
\* a lookup that never finds the key: the test for a binding left out
MapHasNever(mp, key) == FALSE

MapHas(mp, key) == \E e \in Range(mp) : e[1] = key
MapGet(mp, key) == (CHOOSE e \in Range(mp) : e[1] = key)[2]

RECURSIVE BuildLoop(_, _, _)
\* the loop over aptType.Method(i) of NewTraveller, from method i on
BuildLoop(adapter, i, b) ==
    IF i >= Len(adapter) \/ b.err # NoErr \/ b.panic THEN b
    ELSE
      LET m == adapter[i + 1]
          w == Which(m.n)
      IN
      IF w.panic THEN [b EXCEPT !.panic = TRUE]
      ELSE IF ~w.ok THEN BuildLoop(adapter, i + 1, b)
      ELSE IF ~IsValidWithReceiver(w.itype, m) THEN BuildLoop(adapter, i + 1, b)
      ELSE IF w.itype \in {"ForImpl", "ForAssign"}
      THEN LET inType == In(m, ParamLength(w.itype))
           IN  IF MapHas(b.typeMethods, inType)
               THEN [b EXCEPT !.err = "duplicated binding function (Type)"]
               ELSE BuildLoop(adapter, i + 1,
                      [b EXCEPT !.items = Append(@, [i |-> i, n |-> m.n, o |-> 0,
                                                     t |-> inType, c |-> FALSE,
                                                     k |-> Invalid]),
                                !.typeMethods = Append(@, <<inType, i>>)])
      ELSE IF w.itype \in {"ForKind", "ForContainer"}
      THEN IF MapHas(b.kindMethods, w.kind)
           THEN [b EXCEPT !.err = "duplicated binding function (Kind)"]
           ELSE BuildLoop(adapter, i + 1,
                  [b EXCEPT !.items = Append(@, [i |-> i, n |-> m.n, o |-> 0,
                                                 t |-> NilType,
                                                 c |-> (w.itype = "ForContainer"),
                                                 k |-> w.kind]),
                            !.kindMethods = Append(@, <<w.kind, i>>)])
      ELSE IF w.itype = "ForNilPtr"
      THEN IF b.nilPtrMethod # NoMethod
           THEN [b EXCEPT !.err = "duplicated binding function (Nil Ptr)"]
           ELSE BuildLoop(adapter, i + 1, [b EXCEPT !.nilPtrMethod = i])
      ELSE BuildLoop(adapter, i + 1, b)

NilTraveller == <<>>

\* NewTraveller(adapter, config...): [t |-> <<the Traveller>> or nil,
\* err |-> the error or "", panic |-> whether it panicked]
NewTraveller(adapter, config) ==
    LET b == BuildLoop(adapter, 0, EmptyBuild)
    IN
    IF b.panic THEN [t |-> NilTraveller, err |-> NoErr, panic |-> TRUE]
    ELSE IF b.err # NoErr THEN [t |-> NilTraveller, err |-> b.err, panic |-> FALSE]
    ELSE IF Len(b.items) = 0
    THEN [t |-> NilTraveller, err |-> "no available binding function found",
          panic |-> FALSE]
    ELSE [t |-> << [ adapter      |-> adapter,
                     conf         |-> IF Len(config) > 0
                                      THEN <<Clone(config[1])>> ELSE <<>>,
                     nilPtrMethod |-> b.nilPtrMethod,
                     typeMethods  |-> b.typeMethods,
                     kindMethods  |-> b.kindMethods,
                     typeOrder    |-> SortItems(b.items) ] >>,
          err |-> NoErr, panic |-> FALSE]

(***************************************************************************)
(* The state.                                                              *)
(***************************************************************************)
VARIABLES
    adapter,  \* the methods of the adapter, as reflect lists them
    config,   \* the config... argument of NewTraveller: <<>> or <<conf>>
    heap,     \* the values: heap[v] is the value stored at node v
    root,     \* the node handed to Traverse
    beh,      \* what the handlers of the adapter return
    trav,     \* the *Traveller NewTraveller returned: <<>> (nil) or <<t>>
    phase,    \* "new", "ready", "failed", "walking", "done", "error", "panic",
              \* "overflow"
    stack,    \* the activations of _traverse, the innermost last
    calls,    \* the handler calls of the current walk, in order
    probes,   \* the runs of _call of the current walk, in order
    walks,    \* the walks that have returned: their calls and result
    fields,   \* the fields of a struct type handed to the StructPropertier
    props,    \* what Properties returned for them: <<>> or <<result>>
    locals,   \* TravContext.locals: the value stored under each key, if any
    callers,  \* the goroutines that use the TravContext: their current call
    puts,     \* per key, what has become of the calls of PutLocal so far
    ops,      \* the number of calls made on the TravContext
    parked,   \* a walk of another goroutine, not running now: <<>> or <<walk>>
    asked,    \* an ItemType and a reflect.Value to match: <<>> or <<question>>
    answer    \* what MatchValue returned for them: <<>> or <<result>>

\* the state of a walk
walking == <<adapter, config, heap, root, beh, trav, phase, stack, calls, probes, walks>>

\* the state of the StructPropertier and of the TravContext on their own,
\* and the walk of the other goroutine
aside == <<fields, props, locals, callers, puts, ops, parked, asked, answer>>

vars == <<adapter, config, heap, root, beh, trav, phase, stack, calls, probes, walks,
          fields, props, locals, callers, puts, ops, parked, asked, answer>>

(***************************************************************************)
(* reflect.Value: a value is a node of the heap; 0 is the invalid Value.   *)
(***************************************************************************)
NoVal == 0

IsValid(v) == v # NoVal
TypeOf(v) == heap[v].typ
ValKind(v) == KindOf(heap[v].typ)
IsNil(v) == heap[v].nil
\* Value.Len of an array, slice or map
LenOf(v) == IF ValKind(v) = "Map" THEN Len(heap[v].kids) \div 2
            ELSE Len(heap[v].kids)
\* Value.Elem of a pointer
Elem(v) == heap[v].kids[1]
\* Value.Index(i) of an array or slice, Value.Field(i) of a struct
Index(v, i) == heap[v].kids[i + 1]
Field(v, i) == heap[v].kids[i + 1]
\* Value.MapKeys: the keys, in any order
MapKeys(v) == { [i \in 1..LenOf(v) |-> heap[v].kids[2 * p[i] - 1]] : p \in Perms(LenOf(v)) }
\* Value.MapIndex(key)
MapIndex(v, key) ==
    heap[v].kids[(CHOOSE i \in 1..LenOf(v) : heap[v].kids[2 * i - 1] = key) * 2]

(***************************************************************************)
(* Handlers.  A handler is called with the arguments ins and returns       *)
(* (goin, err); beh names the one value for which the handlers do not      *)
(* answer (true, nil).                                                     *)
(***************************************************************************)
HandlerOuts(ins) ==
    IF ins.start
    THEN [goin |-> ~(beh.node = ins.val /\ beh.how = "skip"),
          err  |-> IF beh.node = ins.val /\ beh.how = "err"
                   THEN "handler error" ELSE NoErr]
    ELSE [goin |-> ~(beh.node = ins.val /\ beh.how = "endskip"),
          err  |-> IF beh.node = ins.val /\ beh.how = "enderr"
                   THEN "handler error" ELSE NoErr]

(***************************************************************************)
(* parentInfo.  A *parentInfo is <<>> (nil) or <<frame>>.                  *)
(***************************************************************************)
NilInfo == <<>>

\* nextDepth without the step down: a frame as deep as its parent
nextDepthFlat(p) == IF p = NilInfo THEN 1 ELSE p[1].depth

\* nextDepth with the depth of the root kept from one walk to the next
nextDepthCarried(p) == IF p = NilInfo THEN 1 + Len(walks) ELSE p[1].depth + 1

\* parentInfo.nextDepth
nextDepth(p) == IF p = NilInfo THEN 1 ELSE p[1].depth + 1

InFields(f) == Len(f.structFields) > 0 /\ f.offset >= 0 /\ f.offset < Len(f.structFields)

\* parentInfo.callIns: the arguments of a handler that is not a container's
callIns(p, val) ==
    IF p # NilInfo /\ IsValid(p[1].value)
    THEN LET f == p[1] IN
         IF InFields(f)
         THEN [kind |-> "leaf", depth |-> f.depth,
               index |-> IF f.structFields[f.offset + 1].IndexForReal >= 0
                         THEN f.structFields[f.offset + 1].IndexForReal
                         ELSE f.structFields[f.offset + 1].Index,
               size |-> -1, start |-> TRUE,
               name |-> f.structFields[f.offset + 1].Name, val |-> val]
         ELSE [kind |-> "leaf", depth |-> f.depth, index |-> f.offset,
               size |-> -1, start |-> TRUE, name |-> "", val |-> val]
    ELSE [kind |-> "leaf", depth |-> 0, index |-> -1, size |-> -1,
          start |-> TRUE, name |-> "", val |-> val]

\* _containerIns with the depth of the frame of the container itself
_containerInsOwnDepth(p, info, startOrEnd, val) ==
    IF p # NilInfo /\ IsValid(p[1].value)
    THEN LET f == p[1] IN
         [kind |-> "container", depth |-> info.depth, index |-> f.offset,
          size |-> info.size, start |-> startOrEnd,
          name |-> IF InFields(f) THEN f.structFields[f.offset + 1].Name ELSE "",
          val |-> val]
    ELSE [kind |-> "container", depth |-> info.depth, index |-> -1, size |-> info.size,
          start |-> startOrEnd, name |-> "", val |-> val]

\* parentInfo._containerIns: the arguments of a container handler
_containerIns(p, info, startOrEnd, val) ==
    IF p # NilInfo /\ IsValid(p[1].value)
    THEN LET f == p[1] IN
         [kind |-> "container", depth |-> f.depth, index |-> f.offset,
          size |-> info.size, start |-> startOrEnd,
          name |-> IF InFields(f) THEN f.structFields[f.offset + 1].Name ELSE "",
          val |-> val]
    ELSE [kind |-> "container", depth |-> 0, index |-> -1, size |-> info.size,
          start |-> startOrEnd, name |-> "", val |-> val]

\* endContainerIns with StartOrEnd left true
endContainerInsAsStart(p, info, val) == _containerIns(p, info, TRUE, val)

\* endContainerIns on the frame of the container itself
endContainerInsOwnFrame(p, info, val) == _containerIns(<<info>>, info, FALSE, val)

\* parentInfo.startContainerIns, parentInfo.endContainerIns
startContainerIns(p, info, val) == _containerIns(p, info, TRUE, val)
endContainerIns(p, info, val) == _containerIns(p, info, FALSE, val)

(***************************************************************************)
(* Matching and calling.                                                   *)
(***************************************************************************)
NoMatch == [itype |-> "Unknown", typ |-> NilType, kind |-> Invalid, match |-> FALSE]

\* orderItem.match
match(item, val) ==
    IF ~IsValid(val) THEN NoMatch
    ELSE LET typ == TypeOf(val) IN
      IF item.t # NilType
      THEN IF KindOf(item.t) = "Interface"
           THEN IF Implements(typ, item.t)
                THEN [itype |-> "ForImpl", typ |-> item.t, kind |-> Invalid, match |-> TRUE]
                ELSE NoMatch
           ELSE IF AssignableTo(typ, item.t)
                THEN [itype |-> "ForAssign", typ |-> item.t, kind |-> Invalid, match |-> TRUE]
                ELSE NoMatch
      ELSE IF KindOf(typ) = item.k
           THEN IF item.k \in _containers
                THEN [itype |-> "ForContainer", typ |-> NilType, kind |-> item.k, match |-> TRUE]
                ELSE [itype |-> "ForKind", typ |-> NilType, kind |-> item.k, match |-> TRUE]
           ELSE NoMatch

(***************************************************************************)
(* rtlpropertier, the StructPropertier that reads the tags rtl and         *)
(* rtlorder of the fields.                                                 *)
(***************************************************************************)
Digits == "0123456789"

IsDigit(c) == \E i \in 1..Len(Digits) : SubSeq(Digits, i, i) = c

DigitOf(c) == (CHOOSE i \in 1..Len(Digits) : SubSeq(Digits, i, i) = c) - 1

\* the number written with the digits s is greater than the one written
\* with the digits lim, which has no zero in front
Beyond(s, lim) ==
    LET z == CHOOSE k \in 0..Len(s) :
                /\ \A j \in 1..k : SubSeq(s, j, j) = "0"
                /\ k = Len(s) \/ SubSeq(s, k + 1, k + 1) # "0"
        t == SubSeq(s, z + 1, Len(s))
    IN  \/ Len(t) > Len(lim)
        \/ /\ Len(t) = Len(lim)
           /\ \E i \in 1..Len(t) :
                 /\ SubSeq(t, 1, i - 1) = SubSeq(lim, 1, i - 1)
                 /\ DigitOf(SubSeq(t, i, i)) > DigitOf(SubSeq(lim, i, i))

(***************************************************************************)
(* The int of Properties has 64 bits, more than the numbers of the model   *)
(* are evaluated with (32 bits): an order and a count of Properties are    *)
(* written as the decimal numeral of the int,                              *)
(* "-" in front of a negative one and no zero in front of its digits       *)
(* ("0", "5", "-1", "9223372036854775807").                                *)
(***************************************************************************)
\* the digits s without the zeros in front, "0" for none left
Canon(s) ==
    LET z == CHOOSE k \in 0..Len(s) :
                /\ \A j \in 1..k : SubSeq(s, j, j) = "0"
                /\ k = Len(s) \/ SubSeq(s, k + 1, k + 1) # "0"
    IN  IF z = Len(s) THEN "0" ELSE SubSeq(s, z + 1, Len(s))

\* the int a is negative
Negative(a) == SubSeq(a, 1, 1) = "-"

\* the digits of the int a
Magnitude(a) == IF Negative(a) THEN SubSeq(a, 2, Len(a)) ELSE a

\* a < b for two ints
IntLess(a, b) ==
    IF Negative(a) # Negative(b) THEN Negative(a)
    ELSE IF Negative(a) THEN Beyond(Magnitude(a), Magnitude(b))
    ELSE Beyond(b, a)

RECURSIVE Numeral(_)
\* the int that the number i is
Numeral(i) ==
    IF i < 0 THEN "-" \o Numeral(0 - i)
    ELSE IF i < 10 THEN SubSeq(Digits, i + 1, i + 1)
    ELSE Numeral(i \div 10) \o SubSeq(Digits, (i % 10) + 1, (i % 10) + 1)

RECURSIVE NumberOf(_, _)
\* the number that the digits s make after acc
NumberOf(s, acc) ==
    IF Len(s) = 0 THEN acc
    ELSE NumberOf(SubSeq(s, 2, Len(s)), acc * 10 + DigitOf(SubSeq(s, 1, 1)))

RECURSIVE SuccDigits(_)
\* the digits of the number after the one with the digits s
SuccDigits(s) ==
    IF Len(s) = 0 THEN "1"
    ELSE IF SubSeq(s, Len(s), Len(s)) = "9"
    THEN SuccDigits(SubSeq(s, 1, Len(s) - 1)) \o "0"
    ELSE SubSeq(s, 1, Len(s) - 1)
            \o SubSeq(Digits, DigitOf(SubSeq(s, Len(s), Len(s))) + 2,
                              DigitOf(SubSeq(s, Len(s), Len(s))) + 2)

RECURSIVE PredDigits(_)
\* the digits of the number before the one with the digits s, which is not 0
PredDigits(s) ==
    IF SubSeq(s, Len(s), Len(s)) = "0"
    THEN PredDigits(SubSeq(s, 1, Len(s) - 1)) \o "9"
    ELSE SubSeq(s, 1, Len(s) - 1)
            \o SubSeq(Digits, DigitOf(SubSeq(s, Len(s), Len(s))),
                              DigitOf(SubSeq(s, Len(s), Len(s))))

\* a + 1 for the int a: the addition of 64 bits wraps, the greatest int
\* plus one is the least one
PlusOne(a) ==
    IF a = "9223372036854775807" THEN "-9223372036854775808"
    ELSE IF a = "-1" THEN "0"
    ELSE IF Negative(a) THEN "-" \o Canon(PredDigits(Magnitude(a)))
    ELSE SuccDigits(a)

\* the int the digits of s make with the sign sgn, or no int: s is empty or
\* has a character that is no digit, or its number is greater than lim, the
\* range error of strconv
ParseDigits(s, sgn, lim) ==
    IF Len(s) = 0 \/ \E j \in 1..Len(s) : ~IsDigit(SubSeq(s, j, j))
    THEN [ok |-> FALSE, n |-> "0"]
    ELSE IF Beyond(s, lim) THEN [ok |-> FALSE, n |-> "0"]
    ELSE [ok |-> TRUE, n |-> IF Canon(s) = "0" THEN "0" ELSE sgn \o Canon(s)]

\* strconv.Atoi: an optional sign and digits; int has 64 bits, the numbers
\* from -9223372036854775808 to 9223372036854775807 are in its range
Atoi(s) ==
    IF Len(s) = 0 THEN [ok |-> FALSE, n |-> "0"]
    ELSE IF SubSeq(s, 1, 1) = "-"
    THEN ParseDigits(SubSeq(s, 2, Len(s)), "-", "9223372036854775808")
    ELSE IF SubSeq(s, 1, 1) = "+"
    THEN ParseDigits(SubSeq(s, 2, Len(s)), "", "9223372036854775807")
    ELSE ParseDigits(s, "", "9223372036854775807")

\* the white space of unicode.IsSpace that a string can be written with: the
\* space, the tab, the line feed, the vertical tab (U+000B), the form feed,
\* the carriage return, the next line (U+0085), the no-break space (U+00A0)
\* and the ogham space mark (U+1680)
Spaces == " \t\n\f\r  "

\* unicode.IsSpace
IsSpace(c) == \E i \in 1..Len(Spaces) : SubSeq(Spaces, i, i) = c

RECURSIVE TrimSpace(_)
\* strings.TrimSpace
TrimSpace(s) ==
    IF Len(s) = 0 THEN s
    ELSE IF IsSpace(SubSeq(s, 1, 1)) THEN TrimSpace(SubSeq(s, 2, Len(s)))
    ELSE IF IsSpace(SubSeq(s, Len(s), Len(s))) THEN TrimSpace(SubSeq(s, 1, Len(s) - 1))
    ELSE s

RECURSIVE Split(_, _)
\* strings.Split(s, ","), cur the piece read so far
Split(s, cur) ==
    IF Len(s) = 0 THEN <<cur>>
    ELSE IF SubSeq(s, 1, 1) = "," THEN <<cur>> \o Split(SubSeq(s, 2, Len(s)), "")
    ELSE Split(SubSeq(s, 2, Len(s)), cur \o SubSeq(s, 1, 1))

\* the tag rtl of the field f has the option "-"
Ignored(f) == \E k \in DOMAIN Split(f.rtl, "") : TrimSpace(Split(f.rtl, "")[k]) = "-"

\* the order the tag rtlorder of f gives: -1 without the tag, a panic for a
\* tag that is no number or a negative one
OrderOf(f) ==
    IF Len(TrimSpace(f.rtlorder)) = 0 THEN [panic |-> FALSE, order |-> "-1"]
    ELSE IF \/ ~Atoi(TrimSpace(f.rtlorder)).ok
            \/ IntLess(Atoi(TrimSpace(f.rtlorder)).n, "0")
    THEN [panic |-> TRUE, order |-> "-1"]
    ELSE [panic |-> FALSE, order |-> Atoi(TrimSpace(f.rtlorder)).n]

RECURSIVE Collect(_, _)
\* the first loop of Properties, from field i on (counted from 0)
Collect(fs, i) ==
    IF i >= Len(fs) THEN [panic |-> FALSE, fields |-> <<>>]
    ELSE IF ~fs[i + 1].exported \/ Ignored(fs[i + 1]) THEN Collect(fs, i + 1)
    ELSE IF OrderOf(fs[i + 1]).panic THEN [panic |-> TRUE, fields |-> <<>>]
    ELSE [panic  |-> Collect(fs, i + 1).panic,
          fields |-> << [Index |-> i, Name |-> fs[i + 1].name,
                         IndexForReal |-> OrderOf(fs[i + 1]).order] >>
                       \o Collect(fs, i + 1).fields]

\* the comparison handed to sort.SliceStable
PropLess(a, b) ==
    IF IntLess(b.IndexForReal, a.IndexForReal) THEN FALSE
    ELSE IF IntLess(a.IndexForReal, b.IndexForReal) THEN TRUE
    ELSE a.Index < b.Index

RECURSIVE SortProps(_)
\* sort.SliceStable(fields, less)
SortProps(ps) ==
    IF Len(ps) = 0 THEN <<>>
    ELSE LET k == CHOOSE a \in 1..Len(ps) :
                     \A b \in 1..Len(ps) : b = a \/ PropLess(ps[a], ps[b])
         IN  <<ps[k]>> \o SortProps([x \in 1..(Len(ps) - 1) |->
                                        IF x < k THEN ps[x] ELSE ps[x + 1]])

RECURSIVE DefaultedUnchecked(_, _)
\* Defaulted without the test of the explicit orders against the positions
DefaultedUnchecked(ps, i) ==
    IF i >= Len(ps) THEN [panic |-> FALSE, fields |-> ps]
    ELSE IF IntLess(ps[i + 1].IndexForReal, "0")
    THEN DefaultedUnchecked([ps EXCEPT ![i + 1].IndexForReal = Numeral(i)], i + 1)
    ELSE DefaultedUnchecked(ps, i + 1)

RECURSIVE Defaulted(_, _)
\* the last loop of Properties, from position i on (counted from 0)
Defaulted(ps, i) ==
    IF i >= Len(ps) THEN [panic |-> FALSE, fields |-> ps]
    ELSE IF IntLess(ps[i + 1].IndexForReal, "0")
    THEN Defaulted([ps EXCEPT ![i + 1].IndexForReal = Numeral(i)], i + 1)
    ELSE IF IntLess(ps[i + 1].IndexForReal, Numeral(i))
    THEN [panic |-> TRUE, fields |-> <<>>]
    ELSE Defaulted(ps, i + 1)

\* what Properties returns for the sorted and defaulted fields d: the size
\* is the order of the last field plus one, an addition of ints
Sized(d) ==
    IF d.panic THEN [size |-> "0", fields |-> <<>>, panic |-> TRUE]
    ELSE [size   |-> IF Len(d.fields) > 0
                     THEN PlusOne(d.fields[Len(d.fields)].IndexForReal) ELSE "0",
          fields |-> d.fields, panic |-> FALSE]

\* Properties for a struct type with the fields fs; the orders and the size
\* are ints of 64 bits
RtlProperties(fs) ==
    IF Collect(fs, 0).panic THEN [size |-> "0", fields |-> <<>>, panic |-> TRUE]
    ELSE Sized(Defaulted(SortProps(Collect(fs, 0).fields), 0))

\* the number that the int a is (one of at most 31 bits)
IntOf(a) ==
    IF Negative(a) THEN 0 - NumberOf(Magnitude(a), 0) ELSE NumberOf(a, 0)

\* the properties r with their ints as numbers, as the walk and the
\* handlers of the model hold them: the types of BaseTypes have their
\* orders within 31 bits
Native(r) ==
    [size   |-> IntOf(r.size),
     fields |-> [k \in 1..Len(r.fields) |->
                   [r.fields[k] EXCEPT !.IndexForReal = IntOf(@)]],
     panic  |-> r.panic]

\* ExportedProperties with the position among the exported fields as Index
ExportedPropertiesDense(fs, ex) ==
    [size   |-> Len(ex),
     fields |-> [k \in 1..Len(ex) |->
                   [Index |-> k - 1, Name |-> fs[ex[k]].name, IndexForReal |-> -1]],
     panic  |-> FALSE]

\* the default of _structProperties: the exported fields
ExportedProperties(fs, ex) ==
    [size   |-> Len(ex),
     fields |-> [k \in 1..Len(ex) |->
                   [Index |-> ex[k] - 1, Name |-> fs[ex[k]].name, IndexForReal |-> -1]],
     panic  |-> FALSE]

\* rtlpropertier.Properties
Properties(val) ==
    IF ~IsValid(val) \/ ValKind(val) # "Struct"
    THEN [size |-> "0", fields |-> <<>>, panic |-> FALSE]
    ELSE RtlProperties(BaseTypes[TypeOf(val)].fields)

\* Traveller._structProperties
_structProperties(t, val) ==
    IF ~IsValid(val) THEN [size |-> 0, fields |-> <<>>, panic |-> FALSE]
    ELSE IF t.conf # <<>> /\ t.conf[1].Propertier # "nil" THEN Native(Properties(val))
    ELSE ExportedProperties(BaseTypes[TypeOf(val)].fields,
            SeqOfSet({ i \in 1..Len(BaseTypes[TypeOf(val)].fields) :
                          BaseTypes[TypeOf(val)].fields[i].exported }))

\* reflect.Value.Call(ins) of adapter method m: it panics when the value
\* cannot be assigned to the parameter that takes the property
CallPanics(t, m, ins) ==
    LET mt == t.adapter[m + 1]
    IN  ~AssignableTo(TypeOf(ins.val), mt.ins[Len(mt.ins)])

\* the record of one handler call
CallOf(t, m, ins) == [m |-> m, n |-> t.adapter[m + 1].n] @@ ins

CallResult ==
    [goin |-> FALSE, reEnter |-> FALSE, info |-> NilInfo, newVal |-> NoVal,
     err |-> NoErr, panic |-> FALSE, calls |-> <<>>, scanned |-> 0]

\* the first item of typeOrder that matches val, 0 if none does
FirstMatch(t, val) ==
    IF \E k \in 1..Len(t.typeOrder) : match(t.typeOrder[k], val).match
    THEN CHOOSE k \in 1..Len(t.typeOrder) :
            /\ match(t.typeOrder[k], val).match
            /\ \A j \in 1..(k - 1) : ~match(t.typeOrder[j], val).match
    ELSE 0

\* SizeOf with the number of keys as the size of a map
SizeOfKeys(t, kind, val) ==
    IF kind = "Array" THEN [size |-> LenOf(val), fields |-> <<>>, panic |-> FALSE]
    ELSE IF kind = "Slice"
    THEN [size |-> IF ~IsNil(val) THEN LenOf(val) ELSE 0, fields |-> <<>>, panic |-> FALSE]
    ELSE IF kind = "Map"
    THEN [size |-> IF ~IsNil(val) THEN LenOf(val) ELSE 0, fields |-> <<>>, panic |-> FALSE]
    ELSE IF kind = "Struct" THEN _structProperties(t, val)
    ELSE [size |-> IF ~IsNil(val) THEN 1 ELSE 0, fields |-> <<>>, panic |-> FALSE]

\* the size of a container value and, for a struct, its properties
SizeOf(t, kind, val) ==
    IF kind = "Array" THEN [size |-> LenOf(val), fields |-> <<>>, panic |-> FALSE]
    ELSE IF kind = "Slice"
    THEN [size |-> IF ~IsNil(val) THEN LenOf(val) ELSE 0, fields |-> <<>>, panic |-> FALSE]
    ELSE IF kind = "Map"
    THEN [size |-> IF ~IsNil(val) THEN LenOf(val) * 2 ELSE 0, fields |-> <<>>, panic |-> FALSE]
    ELSE IF kind = "Struct" THEN _structProperties(t, val)
    ELSE [size |-> IF ~IsNil(val) THEN 1 ELSE 0, fields |-> <<>>, panic |-> FALSE]

\* Returns with the error of the handler dropped
ReturnsDroppingErr(t, m, ins, info, scanned, r) ==
    [CallResult EXCEPT !.goin = r.goin, !.info = info,
                       !.calls = <<CallOf(t, m, ins)>>, !.scanned = scanned]

\* the end of _call after a handler has returned: r is what parseReturns
\* made of the values returned
Returns(t, m, ins, info, scanned, r) ==
    IF r.err # NoErr
    THEN [CallResult EXCEPT !.err = r.err, !.calls = <<CallOf(t, m, ins)>>,
                            !.scanned = scanned]
    ELSE [CallResult EXCEPT !.goin = r.goin, !.info = info,
                            !.calls = <<CallOf(t, m, ins)>>, !.scanned = scanned]

\* fVal.Call(ins) followed by itype.parseReturns(outs)
Invoke(t, m, itype, ins, info, scanned) ==
    IF CallPanics(t, m, ins)
    THEN [CallResult EXCEPT !.panic = TRUE, !.scanned = scanned]
    ELSE Returns(t, m, ins, info, scanned, parseReturns(itype, HandlerOuts(ins)))

\* the frame made for a container value
NewInfo(parent, val, sz, fVal) ==
    [depth |-> nextDepth(parent), value |-> val, size |-> sz.size, offset |-> -1,
     structFields |-> sz.fields, binding |-> fVal]

\* _call, the start call of a container: info is the new frame
CallContainer(t, parent, val, k, mt, fVal, info) ==
    Invoke(t, fVal, mt.itype, startContainerIns(parent, info, val), <<info>>, k)

\* _call for a container of the size sz: a panic of the StructPropertier
\* leaves _call before the frame is made
CallSized(t, parent, val, k, mt, fVal, sz) ==
    IF sz.panic THEN [CallResult EXCEPT !.panic = TRUE, !.scanned = k]
    ELSE CallContainer(t, parent, val, k, mt, fVal, NewInfo(parent, val, sz, fVal))

\* _call, the body of the loop for the item at position k, which matched as mt
CallMatched(t, parent, val, k, mt) ==
    IF mt.typ # NilType
    THEN IF ~MapHas(t.typeMethods, mt.typ)
         THEN [CallResult EXCEPT !.panic = TRUE, !.scanned = k]
         ELSE Invoke(t, MapGet(t.typeMethods, mt.typ), mt.itype,
                     callIns(parent, val), NilInfo, k)
    ELSE IF mt.kind # Invalid
    THEN IF ~MapHas(t.kindMethods, mt.kind)
         THEN [CallResult EXCEPT !.panic = TRUE, !.scanned = k]
         ELSE IF mt.kind \in _containers
         THEN CallSized(t, parent, val, k, mt, MapGet(t.kindMethods, mt.kind),
                        SizeOf(t, mt.kind, val))
         ELSE Invoke(t, MapGet(t.kindMethods, mt.kind), mt.itype,
                     callIns(parent, val), NilInfo, k)
    ELSE [CallResult EXCEPT !.panic = TRUE, !.scanned = k]

\* CallMissed with the nil pointer left to the test of IgnoreMissedBinding
CallMissedNilStrict(t, parent, val) ==
    IF t.conf # <<>> /\ t.conf[1].PtrAutoGoIn /\ ValKind(val) = "Ptr" /\ ~IsNil(val)
    THEN [CallResult EXCEPT !.reEnter = TRUE, !.info = parent,
                            !.newVal = Elem(val),
                            !.scanned = Len(t.typeOrder)]
    ELSE IF t.conf = <<>> \/ ~t.conf[1].IgnoreMissedBinding
    THEN [CallResult EXCEPT !.err = "binding is missing",
                            !.scanned = Len(t.typeOrder)]
    ELSE [CallResult EXCEPT !.scanned = Len(t.typeOrder)]

\* CallMissed without the branch for PtrAutoGoIn
CallMissedNoAutoGoIn(t, parent, val) ==
    IF t.conf = <<>> \/ ~t.conf[1].IgnoreMissedBinding
    THEN [CallResult EXCEPT !.err = "binding is missing",
                            !.scanned = Len(t.typeOrder)]
    ELSE [CallResult EXCEPT !.scanned = Len(t.typeOrder)]

\* CallMissed with the test of IgnoreMissedBinding turned around
CallMissedInverted(t, parent, val) ==
    IF t.conf # <<>> /\ t.conf[1].PtrAutoGoIn /\ ValKind(val) = "Ptr"
    THEN IF ~IsNil(val)
         THEN [CallResult EXCEPT !.reEnter = TRUE, !.info = parent,
                                 !.newVal = Elem(val),
                                 !.scanned = Len(t.typeOrder)]
         ELSE [CallResult EXCEPT !.info = parent, !.scanned = Len(t.typeOrder)]
    ELSE IF t.conf # <<>> /\ t.conf[1].IgnoreMissedBinding
    THEN [CallResult EXCEPT !.err = "binding is missing",
                            !.scanned = Len(t.typeOrder)]
    ELSE [CallResult EXCEPT !.scanned = Len(t.typeOrder)]

\* _call, after the loop over typeOrder found no match
CallMissed(t, parent, val) ==
    IF t.conf # <<>> /\ t.conf[1].PtrAutoGoIn /\ ValKind(val) = "Ptr"
    THEN IF ~IsNil(val)
         THEN [CallResult EXCEPT !.reEnter = TRUE, !.info = parent,
                                 !.newVal = Elem(val),
                                 !.scanned = Len(t.typeOrder)]
         ELSE [CallResult EXCEPT !.info = parent, !.scanned = Len(t.typeOrder)]
    ELSE IF t.conf = <<>> \/ ~t.conf[1].IgnoreMissedBinding
    THEN [CallResult EXCEPT !.err = "binding is missing",
                            !.scanned = Len(t.typeOrder)]
    ELSE [CallResult EXCEPT !.scanned = Len(t.typeOrder)]

\* _call, the loop over typeOrder: k is the first item that matches, or 0
CallScan(t, parent, val, k) ==
    IF k # 0
    THEN CallMatched(t, parent, val, k, match(t.typeOrder[k], val))
    ELSE CallMissed(t, parent, val)

\* _call without the test for a nil pointer in front of the loop
_callNoNilPtr(t, parent, val) ==
    IF ~IsValid(val) THEN [CallResult EXCEPT !.err = "invalid value"]
    ELSE CallScan(t, parent, val, FirstMatch(t, val))

\* Traveller._call
_call(t, parent, val) ==
    IF ~IsValid(val) THEN [CallResult EXCEPT !.err = "invalid value"]
    ELSE IF t.nilPtrMethod # NoMethod /\ ValKind(val) = "Ptr" /\ IsNil(val)
    THEN [Invoke(t, t.nilPtrMethod, "ForNilPtr", callIns(parent, val), NilInfo, 0)
            EXCEPT !.goin = FALSE, !.info = NilInfo]
    ELSE CallScan(t, parent, val, FirstMatch(t, val))

(***************************************************************************)
(* Traveller._traverse, one activation per entry of stack.                 *)
(***************************************************************************)
\* the parent argument of the activation at position k of the stack
ParentOf(stk, k) == IF k = 1 THEN NilInfo ELSE stk[k - 1].next

\* val is oldVal, tries the rounds of the loop around _call already made
Activation(val) ==
    [val |-> val, next |-> NilInfo, pc |-> "call", i |-> 0, keys |-> <<>>,
     tries |-> 0]

\* how many times the loop over the children of act.val runs
Rounds(act) ==
    LET next == act.next[1]
        kind == ValKind(act.val)
    IN  IF kind \in {"Array", "Slice"} THEN next.size
        ELSE IF kind = "Map" THEN IF next.size > 0 THEN Len(act.keys) ELSE 0
        ELSE IF kind = "Struct" THEN Len(next.structFields)
        ELSE IF kind = "Ptr" THEN IF next.size > 0 THEN 1 ELSE 0
        ELSE 0

\* the rounds of a struct from i on that are not placeholders
RealFrom(act, i) ==
    { j \in i..(Rounds(act) - 1) :
        ValKind(act.val) = "Struct" => act.next[1].structFields[j + 1].Index >= 0 }

\* ChildAt with the offset of a key set for its value as well
ChildAtKeyOffset(act, i) ==
    LET kind == ValKind(act.val)
    IN  IF kind \in {"Array", "Slice"}
        THEN [val |-> Index(act.val, i), offset |-> i]
        ELSE IF kind = "Map"
        THEN IF i % 2 = 0
             THEN [val |-> act.keys[(i \div 2) + 1], offset |-> (i \div 2) * 2]
             ELSE [val |-> MapIndex(act.val, act.keys[(i \div 2) + 1]),
                   offset |-> (i \div 2) * 2]
        ELSE IF kind = "Struct"
        THEN [val |-> Field(act.val, act.next[1].structFields[i + 1].Index),
              offset |-> i]
        ELSE [val |-> Elem(act.val), offset |-> 0]

\* the value _traverse is called with for step i of the loop, and the offset
\* it sets before; a map takes two steps per key
ChildAt(act, i) ==
    LET kind == ValKind(act.val)
    IN  IF kind \in {"Array", "Slice"}
        THEN [val |-> Index(act.val, i), offset |-> i]
        ELSE IF kind = "Map"
        THEN IF i % 2 = 0
             THEN [val |-> act.keys[(i \div 2) + 1], offset |-> (i \div 2) * 2]
             ELSE [val |-> MapIndex(act.val, act.keys[(i \div 2) + 1]),
                   offset |-> (i \div 2) * 2 + 1]
        ELSE IF kind = "Struct"
        THEN [val |-> Field(act.val, act.next[1].structFields[i + 1].Index),
              offset |-> i]
        ELSE [val |-> Elem(act.val), offset |-> 0]

\* the steps of the loop over the children of act.val
Steps(act) == IF ValKind(act.val) = "Map" THEN 2 * Rounds(act) ELSE Rounds(act)

\* Pending with the loops ending one step early
PendingButLast(act) ==
    IF ValKind(act.val) = "Struct" THEN RealFrom(act, act.i) \ {Rounds(act) - 1}
    ELSE act.i..(Steps(act) - 2)

\* the steps from act.i on that call _traverse
Pending(act) ==
    IF ValKind(act.val) = "Struct" THEN RealFrom(act, act.i)
    ELSE act.i..(Steps(act) - 1)

Pop(stk) == SubSeq(stk, 1, Len(stk) - 1)

\* the walk returns to the caller of Traverse
Returned(result) ==
    /\ phase' = result
    /\ stack' = <<>>
    /\ walks' = Append(walks, [calls |-> calls', probes |-> probes', result |-> result])

\* the innermost activation returns nil
ReturnNil ==
    IF Len(stack) = 1 THEN Returned("done")
    ELSE /\ stack' = Pop(stack)
         /\ UNCHANGED <<phase, walks>>

(***************************************************************************)
(* Inputs.                                                                 *)
(***************************************************************************)
Val(t) == [typ |-> t, nil |-> FALSE, kids |-> <<>>]
Nil(t) == [typ |-> t, nil |-> TRUE, kids |-> <<>>]
Box(t, kids) == [typ |-> t, nil |-> FALSE, kids |-> kids]

\* n pointers in front of a value of type t
ChainFix(n, t) ==
    [root |-> 1,
     heap |-> [i \in 1..(n + 1) |->
                 IF i <= n THEN Box(PtrN(n - i + 1, t), <<i + 1>>) ELSE Val(t)]]

\* n pointers, the last one nil
NilChainFix(n) ==
    [root |-> 1,
     heap |-> [i \in 1..n |->
                 IF i < n THEN Box(PtrN(n - i + 1, "int"), <<i + 1>>) ELSE Nil("*int")]]

\* a []int of l elements
SliceFix(l) ==
    [root |-> 1,
     heap |-> [i \in 1..(l + 1) |->
                 IF i = 1 THEN Box("IntSlice", [j \in 1..l |-> j + 1]) ELSE Val("int")]]

\* [2]int{1, 2}
ArrayFix ==
    [root |-> 1,
     heap |-> << Box("IntArray", <<2, 3>>), Val("int"), Val("int") >>]

\* a map[string]int of k entries
MapFix(k) ==
    [root |-> 1,
     heap |-> [i \in 1..(2 * k + 1) |->
                 IF i = 1 THEN Box("StrIntMap", [j \in 1..(2 * k) |-> j + 1])
                 ELSE IF i % 2 = 0 THEN Val("string") ELSE Val("int")]]

\* &S{A: 1, x: 2, P: nil, B: 3}
StructNilFix ==
    [root |-> 1,
     heap |-> << Box("*S", <<2>>), Box("S", <<3, 4, 5, 6>>),
                 Val("int"), Val("int"), Nil("*int"), Val("MyInt") >>]

\* S{A: 1, x: 2, P: &n, B: 3}
StructFix ==
    [root |-> 1,
     heap |-> << Box("S", <<2, 3, 4, 5>>),
                 Val("int"), Val("int"), Box("*int", <<6>>), Val("MyInt"), Val("int") >>]

\* []*int{&n, &n}
SharedFix ==
    [root |-> 1,
     heap |-> << Box("PtrSlice", <<2, 3>>), Box("*int", <<4>>), Box("*int", <<4>>),
                 Val("int") >>]

\* n := &Node{V: 1}; n.Next = n
CycleFix ==
    [root |-> 1,
     heap |-> << Box("*Node", <<2>>), Box("Node", <<3, 4>>), Val("int"),
                 Box("*Node", <<2>>) >>]

\* &Inner0{}, the struct of the tests with the tags rtlorder
Inner0Fix ==
    [root |-> 1,
     heap |-> << Box("*Inner0", <<2>>), Box("Inner0", <<3, 4, 5, 6, 7, 8, 9>>),
                 Val("int"), Val("int"), Val("int"), Val("int"), Val("int"),
                 Val("int"), Val("int") >>]

\* Inner1{}: A with the order 0, B with no order, C with the order 3
Inner1Fix ==
    [root |-> 1,
     heap |-> << Box("Inner1", <<2, 3, 4>>), Val("int"), Val("int"), Val("int") >>]

\* T{x: 1, A: 2, P: &n}: the first field is not exported
HiddenFirstFix ==
    [root |-> 1,
     heap |-> << Box("T", <<2, 3, 4>>), Val("int"), Val("int"), Box("*int", <<5>>),
                 Val("int") >>]

\* Traverse(nil)
InvalidFix == [root |-> NoVal, heap |-> << Val("int") >>]

Fixtures ==
    { ChainFix(n, "int") : n \in 0..MaxChain }
      \cup { NilChainFix(n) : n \in 1..MaxChain }
      \cup { SliceFix(l) : l \in 0..MaxLen }
      \cup { MapFix(k) : k \in 0..MaxKeys }
      \cup { ChainFix(0, "MyInt"), ChainFix(0, "int32"),
             [root |-> 1, heap |-> << Nil("IntSlice") >>],
             [root |-> 1, heap |-> << Nil("StrIntMap") >>],
             ArrayFix, StructNilFix, StructFix, SharedFix, CycleFix, InvalidFix,
             Inner0Fix, Inner1Fix, HiddenFirstFix }

LeafSig(n, p) ==
    [n |-> n, ins |-> <<"recv", "*TravContext", "int", "int", "string", p>>,
     outs |-> <<"error">>]
ContSig(n, p) ==
    [n |-> n, ins |-> <<"recv", "*TravContext", "int", "int", "int", "bool", "string", p>>,
     outs |-> <<"bool", "error">>]

KindBound ==
    { LeafSig("ForKindInt", "Any"), LeafSig("ForKindString", "Any"),
      ContSig("ForContainerSlice", "Any"), ContSig("ForContainerMap", "Any"),
      ContSig("ForContainerStruct", "Any"), ContSig("ForContainerArray", "Any") }

AdapterSets ==
    { KindBound \cup { ContSig("ForContainerPtr", "Any") },
      KindBound \cup { ContSig("ForContainerPtr", "Any"), LeafSig("ForNilPtr", "Any") },
      KindBound,
      KindBound \cup { LeafSig("ForNilPtr", "Any"), LeafSig("ForAssignPtr", "*int") },
      { LeafSig("ForAssign0", "int"), ContSig("ForContainerStruct", "Any") },
      KindBound \cup { ContSig("ForContainerPointer", "Any"),
                         LeafSig("ForAssignInt", "int"),
                         LeafSig("ForAssignList", "IntList"),
                         LeafSig("ForImplStr", "Stringer") },
      { LeafSig("ForAssignInt", "int"), LeafSig("ForAssignInt2", "int"),
        ContSig("ForContainerStruct", "Any") },
      { ContSig("ForContainerPtr", "Any"), ContSig("ForContainerPointer", "Any"),
        LeafSig("ForKindInt", "Any") },
      { LeafSig("ForKindInt", "Any"), LeafSig("Process", "Any") },
      { LeafSig("ForKindInt", "Any"), LeafSig("Visit", "Any"),
        LeafSig("HandleEverything", "Any") },
      { LeafSig("ForAssignMy", "MyInt"), LeafSig("ForImplStr", "Stringer"),
        LeafSig("ForKindInt", "Any"), ContSig("ForContainerStruct", "Any") },
      { LeafSig("ForIntX", "int") },
      { LeafSig("ForUintX", "int") },
      { LeafSig("ForNilPtr", "Any") },
      { LeafSig("ForIntX", "int"), LeafSig("ForKindString", "Any"),
        ContSig("ForContainerSlice", "Any") },
      { LeafSig("ForKindInt", "int"), ContSig("ForContainerStruct", "Any") },
      { LeafSig("ForKindInt", "Any"), LeafSig("ForKindInt32", "Any") } }

Adapters == { MethodsOf(ms) : ms \in AdapterSets }

Confs ==
    [ IgnoreMissedBinding : BOOLEAN, Propertier : {"nil"},
      ContainerEnd : BOOLEAN, PtrAutoGoIn : BOOLEAN ]

\* the configuration of the tests of rtlpropertier, with and without the
\* end calls
RtlConfs ==
    { [IgnoreMissedBinding |-> FALSE, Propertier |-> "rtl",
       ContainerEnd |-> e, PtrAutoGoIn |-> TRUE] : e \in BOOLEAN }

Configs == { <<>> } \cup { <<c>> : c \in Confs \cup RtlConfs }

\* the handlers answer (true, nil) but, possibly, for one value
Behaviours(h) ==
    { [node |-> NoVal, how |-> "ok"] }
      \cup { [node |-> v, how |-> w] : v \in DOMAIN h, w \in {"err"} }
      \cup { [node |-> v, how |-> w] :
               v \in { u \in DOMAIN h : KindOf(h[u].typ) \in _containers },
               w \in {"skip", "enderr", "endskip"} }

\* the keys and values the callers of a TravContext use
CtxKeys == {"k1", "k2"}
CtxVals == {"v1", "v2"}
Goroutines == {"g1", "g2"}

\* sync.Map: nothing is stored under any key
NoLocals == [k \in CtxKeys |-> <<>>]

\* a goroutine between two calls; in a call, pc is "called" before the
\* sync.Map has been read or written and "done" after, out is what the call
\* returns, begun and ended tell whether a PutLocal with the key had been
\* called, and had returned, when the call was made
Idle ==
    [pc |-> "idle", op |-> "none", key |-> "", val |-> "", out |-> <<>>,
     begun |-> FALSE, ended |-> FALSE]

\* no PutLocal yet: begun and ended tell whether PutLocal has been called,
\* and has returned, with the key; stored are the values stored under it;
\* tail are the values of the calls of PutLocal that no call made after
\* their return follows
NoPuts ==
    [k \in CtxKeys |-> [begun |-> FALSE, ended |-> FALSE, stored |-> {}, tail |-> {}]]

\* NewContext()
NewContext ==
    /\ locals = NoLocals
    /\ callers = [g \in Goroutines |-> Idle]
    /\ puts = NoPuts
    /\ ops = 0

\* MatchValue has not been asked anything
NoQuestion == asked = <<>> /\ answer = <<>>

\* no struct type is being resolved and no TravContext is in use
NoAside ==
    /\ fields = <<>>
    /\ props = <<>>
    /\ NewContext
    /\ parked = <<>>
    /\ NoQuestion

(***************************************************************************)
(* The specification.                                                      *)
(***************************************************************************)
Init ==
    /\ adapter \in Adapters
    /\ config \in Configs
    /\ \E f \in Fixtures :
         /\ heap = f.heap
         /\ root = f.root
    /\ beh \in Behaviours(heap)
    /\ trav = NilTraveller
    /\ phase = "new"
    /\ stack = <<>>
    /\ calls = <<>>
    /\ probes = <<>>
    /\ walks = <<>>
    /\ NoAside

\* tr, err := NewTraveller(adapter, config...)
New ==
    /\ phase = "new"
    /\ LET r == NewTraveller(adapter, config)
       IN  /\ trav' = r.t
           /\ phase' = IF r.panic THEN "panic"
                       ELSE IF r.err # NoErr THEN "failed" ELSE "ready"
    /\ UNCHANGED <<adapter, config, heap, root, beh, stack, calls, probes, walks>>
    /\ UNCHANGED aside

\* Traverse with the handler calls of the walk before kept
StartWalkKeepingCalls ==
    /\ calls' = calls
    /\ probes' = <<>>
    /\ IF ~IsValid(root)
       THEN Returned("done")
       ELSE /\ stack' = << Activation(root) >>
            /\ phase' = "walking"
            /\ UNCHANGED walks
    /\ UNCHANGED <<adapter, config, heap, root, beh, trav>>

\* Traveller.Traverse(obj), up to its call of _traverse
StartWalk ==
    /\ calls' = <<>>
    /\ probes' = <<>>
    /\ IF ~IsValid(root)
       THEN Returned("done")
       ELSE /\ stack' = << Activation(root) >>
            /\ phase' = "walking"
            /\ UNCHANGED walks
    /\ UNCHANGED <<adapter, config, heap, root, beh, trav>>

\* the first Traverse(obj) on the Traveller
Traverse ==
    /\ phase = "ready"
    /\ StartWalk
    /\ UNCHANGED aside

\* another Traverse(obj) on the Traveller, after the one before has returned
TraverseAgain ==
    /\ phase \in {"done", "error"}
    /\ Len(walks) < MaxWalks
    /\ StartWalk
    /\ UNCHANGED aside

\* the record of one run of _call: the value, the activation that ran it
\* (its position in the stack) in which round of its loop, the container
\* and offset it was reached from, the items of typeOrder looked at, and
\* what came of it
Probe(k, act, r) ==
    [val |-> act.val, level |-> k, iter |-> act.tries + 1,
     parent |-> IF k = 1 THEN NoVal ELSE stack[k - 1].val,
     offset |-> IF k = 1 THEN -1 ELSE stack[k - 1].next[1].offset,
     scanned |-> r.scanned, reEnter |-> r.reEnter, goin |-> r.goin,
     called |-> Len(r.calls), first |-> Len(calls) + 1,
     err |-> r.err, panic |-> r.panic]

\* the loop of _traverse after _call returned r to the activation at k
Resolved(k, act, r) ==
    /\ calls' = calls \o r.calls
    /\ probes' = Append(probes, Probe(k, act, r))
    /\ IF r.panic
       THEN /\ phase' = "panic"
            /\ stack' = <<>>
            /\ UNCHANGED walks
       ELSE IF r.err # NoErr THEN Returned("error")
       ELSE IF r.reEnter
       THEN IF ~IsValid(r.newVal)
            THEN /\ phase' = "panic"
                 /\ stack' = <<>>
                 /\ UNCHANGED walks
            ELSE /\ stack' = [stack EXCEPT ![k].val = r.newVal,
                                         ![k].tries = @ + 1]
                 /\ UNCHANGED <<phase, walks>>
       ELSE IF ~r.goin THEN ReturnNil
       ELSE IF r.info = NilInfo \/ ValKind(act.val) \notin _containers
       THEN /\ phase' = "panic"
            /\ stack' = <<>>
            /\ UNCHANGED walks
       ELSE /\ \E keys \in (IF ValKind(act.val) = "Map" /\ r.info[1].size > 0
                            THEN MapKeys(act.val) ELSE { <<>> }) :
                 stack' = [stack EXCEPT ![k].next = r.info,
                                        ![k].pc = "kids",
                                        ![k].keys = keys]
            /\ UNCHANGED <<phase, walks>>

\* one round of the loop of _traverse around _call and, when the loop is
\* left with goin, the entry into the switch on the kind of the value
Resolve ==
    /\ phase = "walking"
    /\ stack # <<>>
    /\ stack[Len(stack)].pc = "call"
    /\ Resolved(Len(stack), stack[Len(stack)],
                _call(trav[1], ParentOf(stack, Len(stack)), stack[Len(stack)].val))
    /\ UNCHANGED <<adapter, config, heap, root, beh, trav>>
    /\ UNCHANGED aside

\* the loop over the children: set next.offset and call _traverse(next, child)
Child ==
    /\ phase = "walking"
    /\ stack # <<>>
    /\ Len(stack) < MaxDepth
    /\ LET k == Len(stack)
           act == stack[k]
       IN  /\ act.pc = "kids"
           /\ Pending(act) # {}
           /\ LET i == CHOOSE j \in Pending(act) : \A l \in Pending(act) : j <= l
                  c == ChildAt(act, i)
              IN  IF ~IsValid(c.val)
                  THEN /\ UNCHANGED <<calls, probes>>
                       /\ Returned("error")
                  ELSE /\ stack' = Append([stack EXCEPT ![k].next[1].offset = c.offset,
                                                        ![k].i = i + 1],
                                          Activation(c.val))
                       /\ UNCHANGED <<phase, walks, calls, probes>>
    /\ UNCHANGED <<adapter, config, heap, root, beh, trav>>
    /\ UNCHANGED aside

\* after the children: the end call of the container, and the return
Finish ==
    /\ phase = "walking"
    /\ stack # <<>>
    /\ LET k == Len(stack)
           act == stack[k]
           t == trav[1]
       IN  /\ act.pc = "kids"
           /\ Pending(act) = {}
           /\ probes' = probes
           /\ IF t.conf # <<>> /\ t.conf[1].ContainerEnd
              THEN LET next == act.next[1]
                       ins == endContainerIns(ParentOf(stack, k), next, act.val)
                   IN  IF CallPanics(t, next.binding, ins)
                       THEN /\ phase' = "panic"
                            /\ stack' = <<>>
                            /\ UNCHANGED <<walks, calls>>
                       ELSE /\ calls' = Append(calls, CallOf(t, next.binding, ins))
                            /\ IF parseReturns("ForContainer", HandlerOuts(ins)).err # NoErr
                               THEN Returned("error")
                               ELSE ReturnNil
              ELSE /\ calls' = calls
                   /\ ReturnNil
    /\ UNCHANGED <<adapter, config, heap, root, beh, trav>>
    /\ UNCHANGED aside

Next == New \/ Traverse \/ Resolve \/ Child \/ Finish

Spec == Init /\ [][Next]_vars

\* the walk followed beyond MaxDepth: _traverse calls itself for the next
\* child with no limit of its own, and the stack of the goroutine is full;
\* the runtime ends the program and Traverse returns nothing
Overflow ==
    /\ phase = "walking"
    /\ stack # <<>>
    /\ Len(stack) >= MaxDepth
    /\ LET act == stack[Len(stack)]
       IN  /\ act.pc = "kids"
           /\ Pending(act) # {}
           /\ IsValid(ChildAt(act, CHOOSE j \in Pending(act) :
                                      \A l \in Pending(act) : j <= l).val)
    /\ phase' = "overflow"
    /\ stack' = <<>>
    /\ UNCHANGED <<calls, probes, walks>>
    /\ UNCHANGED <<adapter, config, heap, root, beh, trav>>
    /\ UNCHANGED aside

\* the graphs walked to the end or to the full stack: one with a pointer that
\* leads back to the struct it is a field of, and graphs without one
DeepFixtures == { CycleFix, StructFix }

DeepAdapters ==
    { MethodsOf(KindBound \cup { ContSig("ForContainerPtr", "Any") }),
      MethodsOf(KindBound) }

\* the handlers answer (true, nil) but, possibly, for one container, whose
\* start handler answers (false, nil)
DeepBehaviours(h) == { b \in Behaviours(h) : b.how \in {"ok", "skip"} }

\* no config, and one with the end calls and PtrAutoGoIn
DeepConfigs ==
    { <<>>,
      << [IgnoreMissedBinding |-> TRUE, Propertier |-> "nil",
          ContainerEnd |-> TRUE, PtrAutoGoIn |-> TRUE] >> }

InitDeep ==
    /\ adapter \in DeepAdapters
    /\ config \in DeepConfigs
    /\ \E f \in DeepFixtures :
         /\ heap = f.heap
         /\ root = f.root
    /\ beh \in DeepBehaviours(heap)
    /\ trav = NilTraveller
    /\ phase = "new"
    /\ stack = <<>>
    /\ calls = <<>>
    /\ probes = <<>>
    /\ walks = <<>>
    /\ NoAside

NextDeep == New \/ Traverse \/ Resolve \/ Child \/ Finish \/ Overflow

\* Traverse is one sequential call: once it is made the walk takes its next
\* step as long as it has one
SpecDeep ==
    /\ InitDeep
    /\ [][NextDeep]_vars
    /\ WF_vars(Traverse) /\ WF_vars(Resolve) /\ WF_vars(Child)
    /\ WF_vars(Finish) /\ WF_vars(Overflow)

\* the same with the Traveller used for several walks
NextAgain == Next \/ TraverseAgain

SpecAgain == Init /\ [][NextAgain]_vars

(***************************************************************************)
(* One Traveller used by two goroutines: after a first walk on its own,    *)
(* Traverse(obj) is called again, and once more by a second goroutine      *)
(* while that walk is under way.  One of the two walks runs, the other is  *)
(* parked; the scheduler may switch between them after every step.         *)
(***************************************************************************)
ParAdapters ==
    { MethodsOf(KindBound \cup { ContSig("ForContainerPtr", "Any") }),
      MethodsOf(KindBound \cup { LeafSig("ForNilPtr", "Any"),
                                 LeafSig("ForAssignPtr", "*int") }) }

ParConfigs ==
    { <<>>,
      << [IgnoreMissedBinding |-> TRUE, Propertier |-> "nil",
          ContainerEnd |-> TRUE, PtrAutoGoIn |-> TRUE] >> }

ParFixtures == { SliceFix(2), MapFix(2), StructFix, ChainFix(2, "int") }

InitPar ==
    /\ adapter \in ParAdapters
    /\ config \in ParConfigs
    /\ \E f \in ParFixtures :
         /\ heap = f.heap
         /\ root = f.root
    /\ beh \in Behaviours(heap)
    /\ trav = NilTraveller
    /\ phase = "new"
    /\ stack = <<>>
    /\ calls = <<>>
    /\ probes = <<>>
    /\ walks = <<>>
    /\ NoAside

\* the second Traverse(obj), after the first has returned
TraverseSecond ==
    /\ phase \in {"done", "error"}
    /\ parked = <<>>
    /\ Len(walks) = 1
    /\ StartWalk
    /\ UNCHANGED aside

\* go tr.Traverse(obj): a second goroutine starts a walk while the second
\* walk of the first is under way, and runs first
Go ==
    /\ phase = "walking"
    /\ parked = <<>>
    /\ Len(walks) = 1
    /\ parked' = << [stack |-> stack, calls |-> calls, probes |-> probes] >>
    /\ StartWalk
    /\ UNCHANGED <<fields, props, locals, callers, puts, ops, asked, answer>>

\* the scheduler lets the parked walk run; the walk that ran is parked if it
\* is not over
Switch ==
    /\ phase \in {"walking", "done", "error"}
    /\ parked # <<>>
    /\ stack' = parked[1].stack
    /\ calls' = parked[1].calls
    /\ probes' = parked[1].probes
    /\ phase' = "walking"
    /\ parked' = IF phase = "walking"
                 THEN << [stack |-> stack, calls |-> calls, probes |-> probes] >>
                 ELSE <<>>
    /\ UNCHANGED <<adapter, config, heap, root, beh, trav, walks>>
    /\ UNCHANGED <<fields, props, locals, callers, puts, ops, asked, answer>>

NextPar == Next \/ TraverseSecond \/ Go \/ Switch

SpecPar == InitPar /\ [][NextPar]_vars

(***************************************************************************)
(* The StructPropertier on its own: Properties for the struct types of up  *)
(* to MaxFields fields.                                                    *)
(***************************************************************************)
\* no walk: the state of a walk stays as it is here
NoWalk(ph) ==
    /\ adapter = <<>>
    /\ config = <<>>
    /\ heap = <<>>
    /\ root = NoVal
    /\ beh = [node |-> NoVal, how |-> "ok"]
    /\ trav = NilTraveller
    /\ phase = ph
    /\ stack = <<>>
    /\ calls = <<>>
    /\ probes = <<>>
    /\ walks = <<>>
    /\ parked = <<>>

\* the names of the fields, by their position in the declaration
Letters == "ABCDEFGH"

\* the values of the tag rtlorder that are numbers
Orders == {"0", "1", "3", "4", "5"}

\* a field of the type int at position i: untagged, with an order, not
\* exported, or tagged rtl:"-"
FieldChoices(i) ==
    { Fld(SubSeq(Letters, i, i), TRUE, "int", o) : o \in {""} \cup Orders }
      \cup { Fld("x", FALSE, "int", ""),
             FldTag(SubSeq(Letters, i, i), TRUE, "int", "", "-") }

\* tags that are not written the plain way
OddTags ==
    { << Fld("A", TRUE, "int", "x") >>,
      << Fld("A", TRUE, "int", "-1") >>,
      << Fld("A", TRUE, "int", " 2 "), FldTag("B", TRUE, "int", "0", "omit, -") >>,
      << Fld("A", TRUE, "int", "+1"), FldTag("B", TRUE, "int", "", "x,y") >>,
      << Fld("A", TRUE, "int", "10"), Fld("B", TRUE, "int", "-") >>,
      << Fld("A", TRUE, "int", "\t2") >>,
      << Fld("B", TRUE, "int", ""), Fld("A", TRUE, "int", "2\n") >>,
      << Fld("A", TRUE, "int", "\t"), Fld("B", TRUE, "int", "\r1\f") >>,
      << FldTag("A", TRUE, "int", "", "\t-"), Fld("B", TRUE, "int", "") >>,
      << FldTag("A", TRUE, "int", "", "omit,-\n"), Fld("B", TRUE, "int", "") >>,
      << Fld("A", TRUE, "int", "9223372036854775808") >>,
      << Fld("A", TRUE, "int", "-9223372036854775809") >>,
      << Fld("A", TRUE, "int", "00000000000000000002") >>,
      << Fld("A", TRUE, "int", "9223372036854775807") >>,
      << Fld("A", TRUE, "int", "+9223372036854775807"), Fld("B", TRUE, "int", "") >>,
      << Fld("A", TRUE, "int", "9223372036854775806"),
         Fld("B", TRUE, "int", "3000000000"), Fld("C", TRUE, "int", "2147483647") >>,
      << Fld("A", TRUE, "int", "-0"), Fld("B", TRUE, "int", "099") >>,
      << Fld("A", TRUE, "int", "2") >>,
      << Fld("A", TRUE, "int", " 2") >>,
      << FldTag("A", TRUE, "int", "", "omit, -"), Fld("B", TRUE, "int", "") >> }

RECURSIVE FieldsUpTo(_)
\* the declarations of n fields
FieldsUpTo(n) ==
    IF n = 0 THEN { <<>> }
    ELSE { Append(fs, f) : fs \in FieldsUpTo(n - 1), f \in FieldChoices(n) }

\* the members A (0), B (no order), C (3), D (4), E (5); the same with the
\* order 1 written for B; and the declaration of Inner0 in the tests
Ordered(o) ==
    << Fld("A", TRUE, "int", "0"), Fld("B", TRUE, "int", o),
       Fld("C", TRUE, "int", "3"), Fld("D", TRUE, "int", "4"),
       Fld("E", TRUE, "int", "5") >>

FiveMembers == { Ordered(""), Ordered("1"), BaseTypes["Inner0"].fields }

\* the declarations of up to n fields
FieldLists(n) == UNION { FieldsUpTo(m) : m \in 0..n } \cup OddTags \cup FiveMembers

InitProps ==
    /\ NoWalk("props")
    /\ fields \in FieldLists(MaxFields)
    /\ props = <<>>
    /\ NewContext
    /\ NoQuestion

\* size, fields := rtlpropertier{}.Properties(val), val of a struct type
\* with the fields at hand
ResolveProps ==
    /\ phase = "props"
    /\ props = <<>>
    /\ props' = << RtlProperties(fields) >>
    /\ UNCHANGED walking
    /\ UNCHANGED <<fields, locals, callers, puts, ops, parked, asked, answer>>

NextProps == ResolveProps

SpecProps == InitProps /\ [][NextProps]_vars

(***************************************************************************)
(* One TravContext used by several goroutines.  sync.Map.Load and          *)
(* sync.Map.Store are atomic; the call and the return of GetLocal and      *)
(* PutLocal are steps of their own.                                        *)
(***************************************************************************)
\* the *TravContext the calls are made on
Self == "ctx"

\* sync.Map.Store with every other key dropped
StoreAlone(m, k, v) == [x \in DOMAIN m |-> IF x = k THEN <<v>> ELSE <<>>]

\* sync.Map.Store(k, v)
Store(m, k, v) == [m EXCEPT ![k] = <<v>>]

\* sync.Map.Load(k): (value, ok)
Load(m, k) ==
    IF m[k] # <<>> THEN [val |-> m[k][1], ok |-> TRUE] ELSE [val |-> "", ok |-> FALSE]

\* the values of the calls PutLocal(k, _) that have not returned
Running(k) ==
    { callers[g].val : g \in { h \in Goroutines :
                                 /\ callers[h].op = "put"
                                 /\ callers[h].key = k } }

InitCtx ==
    /\ NoWalk("ctx")
    /\ fields = <<>>
    /\ props = <<>>
    /\ NewContext
    /\ NoQuestion

\* a step of a call on the TravContext changes nothing else
OnlyContext ==
    UNCHANGED <<adapter, config, heap, root, beh, trav, phase, stack, calls, probes,
                walks, fields, props, parked, asked, answer>>

\* the goroutine g calls c.PutLocal(k, v)
PutCall(g, k, v) ==
    /\ phase = "ctx"
    /\ callers[g].pc = "idle"
    /\ ops < MaxOps
    /\ ops' = ops + 1
    /\ callers' = [callers EXCEPT ![g] =
                     [pc |-> "called", op |-> "put", key |-> k, val |-> v,
                      out |-> <<>>, begun |-> puts[k].begun, ended |-> puts[k].ended]]
    /\ puts' = [puts EXCEPT ![k].begun = TRUE, ![k].tail = Running(k) \cup {v}]
    /\ UNCHANGED locals
    /\ OnlyContext

\* c.locals.Store(key, val) in PutLocal
PutStore(g) ==
    /\ phase = "ctx"
    /\ callers[g].pc = "called"
    /\ callers[g].op = "put"
    /\ locals' = Store(locals, callers[g].key, callers[g].val)
    /\ callers' = [callers EXCEPT ![g].pc = "done", ![g].out = <<Self>>]
    /\ puts' = [puts EXCEPT ![callers[g].key].stored = @ \cup {callers[g].val}]
    /\ UNCHANGED ops
    /\ OnlyContext

\* return c in PutLocal
PutReturn(g) ==
    /\ phase = "ctx"
    /\ callers[g].pc = "done"
    /\ callers[g].op = "put"
    /\ callers' = [callers EXCEPT ![g] = Idle]
    /\ puts' = [puts EXCEPT ![callers[g].key].ended = TRUE]
    /\ UNCHANGED <<locals, ops>>
    /\ OnlyContext

\* the goroutine g calls c.GetLocal(k)
GetCall(g, k) ==
    /\ phase = "ctx"
    /\ callers[g].pc = "idle"
    /\ ops < MaxOps
    /\ ops' = ops + 1
    /\ callers' = [callers EXCEPT ![g] =
                     [pc |-> "called", op |-> "get", key |-> k, val |-> "",
                      out |-> <<>>, begun |-> puts[k].begun, ended |-> puts[k].ended]]
    /\ UNCHANGED <<locals, puts>>
    /\ OnlyContext

\* c.locals.Load(key) in GetLocal; begun now tells whether a PutLocal with
\* the key had been called by the time of the Load
GetLoad(g) ==
    /\ phase = "ctx"
    /\ callers[g].pc = "called"
    /\ callers[g].op = "get"
    /\ callers' = [callers EXCEPT ![g].pc = "done",
                                  ![g].out = << Load(locals, callers[g].key) >>,
                                  ![g].begun = puts[callers[g].key].begun]
    /\ UNCHANGED <<locals, puts, ops>>
    /\ OnlyContext

\* the return of GetLocal
GetReturn(g) ==
    /\ phase = "ctx"
    /\ callers[g].pc = "done"
    /\ callers[g].op = "get"
    /\ callers' = [callers EXCEPT ![g] = Idle]
    /\ UNCHANGED <<locals, puts, ops>>
    /\ OnlyContext

NextCtx ==
    \E g \in Goroutines :
       \/ \E k \in CtxKeys, v \in CtxVals : PutCall(g, k, v)
       \/ PutStore(g)
       \/ PutReturn(g)
       \/ \E k \in CtxKeys : GetCall(g, k)
       \/ GetLoad(g)
       \/ GetReturn(g)

SpecCtx == InitCtx /\ [][NextCtx]_vars

(***************************************************************************)
(* ItemType.MatchValue on its own: every ItemType asked about a value of   *)
(* every kind.                                                             *)
(***************************************************************************)
ItemTypes ==
    { "ForImpl", "ForAssign", "ForKind", "ForContainer", "ForNilPtr", "ForIntX",
      "ForUintX", "Unknown" }

\* the kinds of reflect a valid Value can have
IntKinds == { "Int", "Int8", "Int16", "Int32", "Int64" }
UintKinds == { "Uint", "Uint8", "Uint16", "Uint32", "Uint64" }
Kinds ==
    IntKinds \cup UintKinds
      \cup { "Bool", "Uintptr", "Float32", "Float64", "Complex64", "Complex128",
             "Array", "Chan", "Func", "Interface", "Map", "Ptr", "Slice", "String",
             "Struct", "UnsafePointer" }

\* the kinds whose values can be nil
NilKinds == { "Chan", "Func", "Interface", "Map", "Ptr", "Slice", "UnsafePointer" }

\* the invalid Value and a Value of every kind, nil where the kind allows it
Values ==
    { [valid |-> FALSE, kind |-> Invalid, nil |-> FALSE] }
      \cup { [valid |-> TRUE, kind |-> k, nil |-> FALSE] : k \in Kinds }
      \cup { [valid |-> TRUE, kind |-> k, nil |-> TRUE] : k \in NilKinds }

InitMatch ==
    /\ NoWalk("match")
    /\ fields = <<>>
    /\ props = <<>>
    /\ NewContext
    /\ asked \in { << [itype |-> i, val |-> v] >> : i \in ItemTypes, v \in Values }
    /\ answer = <<>>

\* ok := itype.MatchValue(val)
Match ==
    /\ phase = "match"
    /\ answer = <<>>
    /\ answer' = << MatchValue(asked[1].itype, asked[1].val) >>
    /\ UNCHANGED walking
    /\ UNCHANGED <<fields, props, locals, callers, puts, ops, parked, asked>>

NextMatch == Match

SpecMatch == InitMatch /\ [][NextMatch]_vars

(***************************************************************************)
(* Properties.  They are stated on calls and probes, the record of what    *)
(* the walk did, and on the heap the walk was given.                       *)
(***************************************************************************)
\* the option f of the configuration of the Traveller is set
ConfOn(f) == trav # NilTraveller /\ trav[1].conf # <<>> /\ trav[1].conf[1][f]

\* a start call of a container whose handler answered (true, nil)
IsStartGo(c) ==
    /\ c.kind = "container"
    /\ c.start
    /\ HandlerOuts(c).goin
    /\ HandlerOuts(c).err = NoErr

IsEnd(c) == c.kind = "container" /\ ~c.start

EndOf(c) == [c EXCEPT !.start = FALSE]

StartOf(c) == [c EXCEPT !.start = TRUE]

RECURSIVE DerefReach(_, _)
\* v is a, or what a points to through pointers that are dereferenced
DerefReach(a, v) ==
    \/ a = v
    \/ /\ ConfOn("PtrAutoGoIn")
       /\ ValKind(a) = "Ptr"
       /\ ~IsNil(a)
       /\ DerefReach(Elem(a), v)

\* a call for v can be the call for a child of the container c
ChildOf(c, v) == \E i \in DOMAIN heap[c].kids : DerefReach(heap[c].kids[i], v)

\* the calls after position p that are not below the call at p
NotBelow(cs, p) == { q \in (p + 1)..Len(cs) : cs[q].depth <= cs[p].depth }

First(S) == CHOOSE x \in S : \A y \in S : x <= y

\* C1: a container's start call comes before every call for its descendants:
\* every call at depth d > 0 follows the start call, at depth d - 1 and
\* answered (true, nil), of a container it is a child of, with only deeper
\* or equally deep calls in between.  With ContainerEnd the first call after
\* a start call that is not below it is the end call of that container, a
\* finished walk has made it, and every end call closes a start call with
\* only deeper calls in between.
C1_StartBeforeEndAfter ==
    \A p \in 1..Len(calls) :
      /\ (calls[p].start /\ calls[p].depth > 0) =>
            \E s \in 1..(p - 1) :
               /\ IsStartGo(calls[s])
               /\ calls[s].depth = calls[p].depth - 1
               /\ ChildOf(calls[s].val, calls[p].val)
               /\ \A q \in (s + 1)..(p - 1) : calls[q].depth >= calls[p].depth
      /\ (IsStartGo(calls[p]) /\ ConfOn("ContainerEnd")) =>
            /\ NotBelow(calls, p) # {} =>
                  calls[First(NotBelow(calls, p))] = EndOf(calls[p])
            /\ phase = "done" => NotBelow(calls, p) # {}
      /\ IsEnd(calls[p]) =>
            /\ ConfOn("ContainerEnd")
            /\ \E s \in 1..(p - 1) :
                 /\ calls[s] = StartOf(calls[p])
                 /\ IsStartGo(calls[s])
                 /\ \A q \in (s + 1)..(p - 1) : calls[q].depth > calls[p].depth

\* C1 witness: a finished walk with ContainerEnd in which a container with
\* two children was entered, left, and followed by a call for a sibling
C1_Witness ==
    /\ phase = "done"
    /\ ConfOn("ContainerEnd")
    /\ \E s, e, q \in 1..Len(calls) :
         /\ s + 1 < e
         /\ q = e + 1
         /\ IsStartGo(calls[s])
         /\ calls[e] = EndOf(calls[s])
         /\ calls[q].start
         /\ calls[q].depth = calls[s].depth

\* every run of _call of the walk ended in a handler call
AllBound == \A p \in 1..Len(probes) : probes[p].called = 1

\* every start call of a container was answered (true, nil)
AllGoIn ==
    \A p \in 1..Len(calls) :
       (calls[p].kind = "container" /\ calls[p].start) => IsStartGo(calls[p])

\* the handler calls made for the value v, end calls left out
Dispatches(v) == { p \in 1..Len(calls) : calls[p].val = v /\ calls[p].start }

\* the value u was handed to the start handler of a container
Entered(u) ==
    \E p \in 1..Len(calls) :
       calls[p].val = u /\ calls[p].kind = "container" /\ calls[p].start

\* the members of u a walk goes to: the elements, the keys and values, the
\* value pointed to, the properties of a struct
Members(u) ==
    IF ValKind(u) = "Struct"
    THEN LET ps == _structProperties(trav[1], u).fields
         IN  [k \in 1..Len(ps) |-> Field(u, ps[k].Index)]
    ELSE heap[u].kids

RECURSIVE ReachFrom(_, _)
\* the values reachable from the values of S, S included, through the
\* members of values handed to container handlers
ReachFrom(S, seen) ==
    IF S \subseteq seen THEN seen
    ELSE ReachFrom(UNION { Range(Members(u)) : u \in { x \in S : Entered(x) } },
                   seen \cup S)

RECURSIVE PathsTo(_, _, _)
RECURSIVE PathsVia(_, _, _)
\* the number of paths of at most fuel steps from u to v that lead through
\* the members of values handed to container handlers
PathsTo(u, v, fuel) ==
    (IF u = v THEN 1 ELSE 0)
      + (IF fuel > 0 /\ Entered(u) THEN PathsVia(Members(u), v, fuel - 1) ELSE 0)

PathsVia(kids, v, fuel) ==
    IF Len(kids) = 0 THEN 0
    ELSE PathsTo(Head(kids), v, fuel) + PathsVia(Tail(kids), v, fuel)

\* C2 as stated: in a finished walk in which every value is bound and every
\* start handler answers true, every member reachable from the root (through
\* the containers the walk entered) has been dispatched to a handler exactly
\* once, whatever the number of paths to it.
C2_Once ==
    (phase = "done" /\ IsValid(root) /\ AllBound /\ AllGoIn) =>
        \A v \in ReachFrom({root}, {}) : Cardinality(Dispatches(v)) = 1

\* C2 amended: in such a walk every value has been dispatched once for every
\* path that leads to it from the root through the members of values handed
\* to container handlers: once when there is one such path, k times when
\* there are k, and not at all below a container bound by type or interface.
C2_OncePerPath ==
    (phase = "done" /\ IsValid(root) /\ AllBound /\ AllGoIn) =>
        \A v \in DOMAIN heap :
           Cardinality(Dispatches(v)) = PathsTo(root, v, Len(heap))

\* C2 witness: a finished walk of bound values in which one value was reached
\* by two paths and dispatched twice, and another by one path and once
C2_Witness ==
    /\ phase = "done"
    /\ IsValid(root)
    /\ AllBound
    /\ AllGoIn
    /\ \E v, w \in ReachFrom({root}, {}) :
         /\ Cardinality(Dispatches(v)) = 2
         /\ PathsTo(root, v, Len(heap)) = 2
         /\ Cardinality(Dispatches(w)) = 1
         /\ ValKind(w) = "Ptr"

\* the (depth, parent-index, name, value) tuple of a handler call
Tuple(c) == <<c.depth, c.index, c.name, c.val>>

Tuples(cs) == [p \in 1..Len(cs) |-> Tuple(cs[p])]

\* some value of the heap is a mapping of two or more keys
HasWideMap == \E v \in DOMAIN heap : ValKind(v) = "Map" /\ LenOf(v) >= 2

\* C3 as stated: any two walks of the same root by the same Traveller make
\* the same sequence of (depth, parent-index, name, value) tuples, mappings
\* of two or more keys included.
C3_SameSequence ==
    \A i, j \in 1..Len(walks) :
       Tuples(walks[i].calls) = Tuples(walks[j].calls)

\* C3 amended: any two walks of the same root by the same Traveller make the
\* same sequence of (depth, parent-index, name, value) tuples and end the
\* same way, provided the value holds no mapping of two or more keys.
C3_SameSequenceNoWideMap ==
    ~HasWideMap =>
        \A i, j \in 1..Len(walks) :
           /\ Tuples(walks[i].calls) = Tuples(walks[j].calls)
           /\ walks[i].result = walks[j].result

\* C3 witness: two finished walks of a value with a container in it, a
\* mapping of one key among them, that made the same three calls or more
C3_Witness ==
    /\ ~HasWideMap
    /\ Len(walks) >= 2
    /\ walks[1].result = "done"
    /\ Len(walks[1].calls) >= 3
    /\ \E p \in 1..Len(walks[1].calls) : ValKind(walks[1].calls[p].val) = "Map"
    /\ Tuples(walks[1].calls) = Tuples(walks[2].calls)

\* the run of _call recorded as pr was taken over by the ForNilPtr binding
Intercepted(pr) ==
    trav[1].nilPtrMethod # NoMethod /\ ValKind(pr.val) = "Ptr" /\ IsNil(pr.val)

\* the declaration indexes of the descriptors whose rule matches v
Matching(v) ==
    { it.i : it \in { x \in Range(trav[1].typeOrder) : match(x, v).match } }

\* C4: a value that the ForNilPtr binding does not take over and that some
\* descriptor matches is handed to exactly one handler, the method of the
\* matching descriptor with the smallest declaration index; a value that no
\* descriptor matches is handed to none.
C4_FirstMatchWins ==
    \A p \in 1..Len(probes) :
       (~Intercepted(probes[p]) /\ ~probes[p].panic) =>
          IF Matching(probes[p].val) = {}
          THEN probes[p].called = 0
          ELSE /\ probes[p].called = 1
               /\ calls[probes[p].first].val = probes[p].val
               /\ calls[probes[p].first].m = First(Matching(probes[p].val))
               /\ calls[probes[p].first].n = adapter[First(Matching(probes[p].val)) + 1].n

\* C4 witness: a value that two descriptors match, a type-bound one and a
\* kind-bound one, was handed to the one declared first
C4_Witness ==
    \E p \in 1..Len(probes) :
       /\ ~Intercepted(probes[p])
       /\ Cardinality(Matching(probes[p].val)) >= 2
       /\ probes[p].called = 1
       /\ calls[probes[p].first].m = First(Matching(probes[p].val))
       /\ calls[probes[p].first].m > 0

\* what the method m, which Which classifies as w, is bound to: a type, a
\* kind, or nothing when its name or its signature makes NewTraveller skip it
BoundTo(m, w) ==
    IF ~w.ok \/ ~IsValidWithReceiver(w.itype, m) THEN <<"nothing">>
    ELSE IF w.itype \in {"ForImpl", "ForAssign"} THEN <<"type", m.ins[Len(m.ins)]>>
    ELSE IF w.itype \in {"ForKind", "ForContainer"} THEN <<"kind", w.kind>>
    ELSE <<"nothing">>

RECURSIVE Bindings(_, _)
\* what the methods of the adapter from position a on are bound to
Bindings(ad, a) ==
    IF a > Len(ad) THEN <<>>
    ELSE <<BoundTo(ad[a], Which(ad[a].n))>> \o Bindings(ad, a + 1)

\* two of the bindings bs are bindings of class c to the same type or kind
Twice(bs, c) ==
    \E a, b \in 1..Len(bs) : a # b /\ bs[a][1] = c /\ bs[a] = bs[b]

\* two signature-valid methods of the adapter are bound to the same type
SameTypeTwice(ad) == Twice(Bindings(ad, 1), "type")

\* two signature-valid methods of the adapter are bound to the same kind
SameKindTwice(ad) == Twice(Bindings(ad, 1), "kind")

\* C5: NewTraveller on an adapter with two signature-valid methods bound to
\* the same type, or to the same kind, returns an error and a nil Traveller.
C5_DuplicateFails ==
    (phase # "new" /\ (SameTypeTwice(adapter) \/ SameKindTwice(adapter))) =>
        /\ phase = "failed"
        /\ trav = NilTraveller
        /\ NewTraveller(adapter, config).err # NoErr

\* C5 witness: NewTraveller has failed on an adapter with ForContainerPtr
\* and ForContainerPointer
C5_Witness ==
    /\ phase = "failed"
    /\ trav = NilTraveller
    /\ SameKindTwice(adapter)
    /\ \E a, b \in 1..Len(adapter) :
         adapter[a].n = "ForContainerPtr" /\ adapter[b].n = "ForContainerPointer"

\* NewTraveller has failed on an adapter with two methods for the type int
C5_WitnessType == phase = "failed" /\ SameTypeTwice(adapter)

\* the run of _call recorded as pr found no descriptor for its value
Unmatched(pr) == ~Intercepted(pr) /\ Matching(pr.val) = {}

\* the value of pr is a pointer and the walk has PtrAutoGoIn
AutoPtr(pr) == ConfOn("PtrAutoGoIn") /\ ValKind(pr.val) = "Ptr"

\* the run of _call at position p of probes skipped its value: no handler
\* call, no error, nothing below the value visited, and the walk goes on:
\* the next run of _call, if there is one, is not deeper, and on the same
\* level it is for a later member of the same container; a finished walk
\* has gone to the next member when the container has one
Skipped(p) ==
    /\ probes[p].called = 0
    /\ probes[p].err = NoErr
    /\ ~probes[p].reEnter
    /\ ~probes[p].goin
    /\ ~(phase = "error" /\ p = Len(probes) /\ Len(calls) < probes[p].first)
    /\ p < Len(probes) =>
          /\ probes[p + 1].level <= probes[p].level
          /\ probes[p + 1].level = probes[p].level =>
                /\ probes[p + 1].parent = probes[p].parent
                /\ probes[p + 1].offset > probes[p].offset
    /\ (phase = "done" /\ probes[p].level > 1
          /\ probes[p].offset + 1 < Len(Members(probes[p].parent))) =>
          /\ p < Len(probes)
          /\ probes[p + 1].level = probes[p].level
          /\ probes[p + 1].offset = probes[p].offset + 1

\* the run of _call at position p of probes failed the walk with the
\* binding-missing error: it is the last one, no handler was called for it
\* or after it, and Traverse returned the error
Missed(p) ==
    /\ probes[p].err = "binding is missing"
    /\ probes[p].called = 0
    /\ p = Len(probes)
    /\ Len(calls) < probes[p].first
    /\ phase = "error"
    /\ walks[Len(walks)].result = "error"

\* C6 as stated: every value that no rule matches fails the walk with the
\* binding-missing error when IgnoreMissedBinding is false, and is skipped
\* when it is true.
C6_MissedPolicy ==
    \A p \in 1..Len(probes) :
       Unmatched(probes[p]) =>
          IF ConfOn("IgnoreMissedBinding") THEN Skipped(p) ELSE Missed(p)

\* C6 amended: every value that no rule matches, other than a pointer walked
\* with PtrAutoGoIn, fails the walk with the binding-missing error when
\* IgnoreMissedBinding is false, and is skipped when it is true.
C6_MissedPolicyButAutoPtr ==
    \A p \in 1..Len(probes) :
       (Unmatched(probes[p]) /\ ~AutoPtr(probes[p])) =>
          IF ConfOn("IgnoreMissedBinding") THEN Skipped(p) ELSE Missed(p)

\* C6 witness: a finished walk with IgnoreMissedBinding in which a member of
\* a struct that no rule matches was skipped and the walk went on to the
\* next member
C6_Witness ==
    /\ phase = "done"
    /\ ConfOn("IgnoreMissedBinding")
    /\ \E p \in 1..(Len(probes) - 1) :
         /\ Unmatched(probes[p])
         /\ ~AutoPtr(probes[p])
         /\ Skipped(p)
         /\ probes[p].level > 1
         /\ probes[p + 1].level = probes[p].level
         /\ probes[p + 1].called = 1

\* a walk without IgnoreMissedBinding has failed on a member no rule matches
C6_WitnessMissed ==
    /\ ~ConfOn("IgnoreMissedBinding")
    /\ \E p \in 1..Len(probes) :
         Unmatched(probes[p]) /\ ~AutoPtr(probes[p]) /\ Missed(p) /\ probes[p].level > 1

\* C7: with a ForNilPtr binding, every run of _call for a nil pointer looks
\* at no descriptor of typeOrder and makes exactly one call, to the ForNilPtr
\* method; every call ever made for that value is such a call (no other
\* handler, no end call), and nothing is visited below it: the next run of
\* _call is not deeper.
C7_NilPtrIntercepted ==
    \A p \in 1..Len(probes) :
       Intercepted(probes[p]) =>
          /\ probes[p].scanned = 0
          /\ probes[p].called = 1
          /\ ~probes[p].goin
          /\ ~probes[p].reEnter
          /\ calls[probes[p].first].val = probes[p].val
          /\ calls[probes[p].first].m = trav[1].nilPtrMethod
          /\ \A q \in 1..Len(calls) :
                calls[q].val = probes[p].val =>
                   /\ calls[q].n = NilPtrName
                   /\ calls[q].kind = "leaf"
                   /\ calls[q].start
          /\ p < Len(probes) => probes[p + 1].level <= probes[p].level

\* C7 witness: a finished walk with ContainerEnd by a Traveller with ForNilPtr
\* and a rule that matches the pointer, in which a nil pointer member of a
\* struct was handed to ForNilPtr and the walk went on to the next member
C7_Witness ==
    /\ phase = "done"
    /\ ConfOn("ContainerEnd")
    /\ \E p \in 1..(Len(probes) - 1) :
         /\ Intercepted(probes[p])
         /\ Matching(probes[p].val) # {}
         /\ probes[p].level > 1
         /\ calls[probes[p].first].n = NilPtrName
         /\ probes[p + 1].level = probes[p].level

\* the value v is a pointer that is not nil and matches no rule
UnboundPtr(v) == ValKind(v) = "Ptr" /\ ~IsNil(v) /\ Matching(v) = {}

RECURSIVE ChainLen(_, _)
\* the number of pointers that are not nil and match no rule in front of
\* the first value from v on that is not such a pointer
ChainLen(v, fuel) ==
    IF fuel > 0 /\ UnboundPtr(v) THEN 1 + ChainLen(Elem(v), fuel - 1) ELSE 0

RECURSIVE ChainEnd(_, _)
\* that first value
ChainEnd(v, fuel) ==
    IF fuel > 0 /\ UnboundPtr(v) THEN ChainEnd(Elem(v), fuel - 1) ELSE v

\* C8: with PtrAutoGoIn a pointer that is not nil and matches no rule is
\* resolved by another round of the loop of the same _traverse activation,
\* on the value it points to, without a handler call.  A chain of N such
\* pointers in front of a value that matches a rule takes rounds 1..N+1 of
\* one activation, and these make one handler call in all, for that value.
C8_AutoGoInLoop ==
    \A p \in 1..Len(probes) :
       /\ probes[p].reEnter <=>
             (ConfOn("PtrAutoGoIn") /\ UnboundPtr(probes[p].val))
       /\ probes[p].reEnter => probes[p].called = 0
       /\ (probes[p].reEnter /\ p < Len(probes)) =>
             /\ probes[p + 1].level = probes[p].level
             /\ probes[p + 1].iter = probes[p].iter + 1
             /\ probes[p + 1].val = Elem(probes[p].val)
       /\ probes[p].iter > 1 =>
             /\ p > 1
             /\ probes[p - 1].reEnter
             /\ probes[p - 1].iter = probes[p].iter - 1
       /\ (probes[p].iter = 1 /\ ConfOn("PtrAutoGoIn")
             /\ Matching(ChainEnd(probes[p].val, Len(heap))) # {}
             /\ p + ChainLen(probes[p].val, Len(heap)) <= Len(probes)) =>
             LET N == ChainLen(probes[p].val, Len(heap))
             IN  /\ probes[p + N].val = ChainEnd(probes[p].val, Len(heap))
                 /\ probes[p + N].level = probes[p].level
                 /\ probes[p + N].iter = N + 1
                 /\ ~probes[p + N].reEnter
                 /\ \A q \in p..(p + N - 1) : probes[q].called = 0
                 /\ probes[p + N].first = probes[p].first
                 /\ (~Intercepted(probes[p + N]) /\ ~probes[p + N].panic) =>
                       probes[p + N].called = 1

\* C8 witness: a finished walk with PtrAutoGoIn of a chain of two pointers
\* that match no rule in front of a value that matches one: three rounds of
\* the loop of the one activation and one handler call, for that value
C8_Witness ==
    /\ phase = "done"
    /\ ConfOn("PtrAutoGoIn")
    /\ IsValid(root)
    /\ ChainLen(root, Len(heap)) = 2
    /\ Len(probes) = 3
    /\ probes[3].level = 1
    /\ probes[3].iter = 3
    /\ Len(calls) = 1
    /\ calls[1].val = ChainEnd(root, Len(heap))

\* the handler answered the call c with an error
Failed(c) == HandlerOuts(c).err # NoErr

\* C9: a handler call answered with an error, be it of a leaf handler, of a
\* start handler or of an end handler, is the last call of its walk: no
\* handler is called after it, the end handlers of the containers that are
\* open included, no _traverse activation is left, and Traverse has
\* returned an error.
C9_ErrorAborts ==
    \A p \in 1..Len(calls) :
       Failed(calls[p]) =>
          /\ p = Len(calls)
          /\ phase = "error"
          /\ stack = <<>>
          /\ walks # <<>>
          /\ walks[Len(walks)].result = "error"
          /\ walks[Len(walks)].calls = calls

\* C9 witness: a walk with ContainerEnd has returned an error after a
\* handler failed for a member of a container at depth 1 or more; the
\* containers entered on the way are still without their end calls
C9_Witness ==
    /\ phase = "error"
    /\ ConfOn("ContainerEnd")
    /\ calls # <<>>
    /\ Failed(calls[Len(calls)])
    /\ calls[Len(calls)].depth >= 2
    /\ \E s, u \in 1..(Len(calls) - 1) :
         /\ s < u
         /\ IsStartGo(calls[s])
         /\ IsStartGo(calls[u])
         /\ \A e \in 1..Len(calls) : ~IsEnd(calls[e])

\* a walk has returned an error after the end handler of a container failed
C9_WitnessEnd ==
    /\ phase = "error"
    /\ calls # <<>>
    /\ IsEnd(calls[Len(calls)])
    /\ Failed(calls[Len(calls)])

\* the runs of _call that the activation of the run at position m of probes
\* started for the children of its value: the first rounds, one level
\* deeper, up to the next run that is not below m
ChildrenOf(m) ==
    { q \in (m + 1)..Len(probes) :
        /\ probes[q].level = probes[m].level + 1
        /\ probes[q].iter = 1
        /\ \A x \in (m + 1)..q : probes[x].level > probes[m].level }

\* the keys of the map v
KeysOf(v) == { heap[v].kids[2 * i - 1] : i \in 1..LenOf(v) }

\* ch lists, in order, the runs of _call for the children of the map v: the
\* j-th is at offset j - 1 of v, the runs at even offsets are for keys of v,
\* each key once, and the run after that of a key is for the value stored
\* under this key; a handler called for a child gets the offset as its index
PairsInOrder(v, ch) ==
    \A j \in 1..Len(ch) :
       /\ probes[ch[j]].parent = v
       /\ probes[ch[j]].offset = j - 1
       /\ probes[ch[j]].called = 1 => calls[probes[ch[j]].first].index = j - 1
       /\ IF j % 2 = 1
          THEN /\ probes[ch[j]].val \in KeysOf(v)
               /\ \A i \in 1..(j - 1) :
                     i % 2 = 1 => probes[ch[i]].val # probes[ch[j]].val
          ELSE probes[ch[j]].val = MapIndex(v, probes[ch[j - 1]].val)

\* C10: under a map of N entries whose start handler answered (true, nil)
\* the children are visited at offsets 0, 1, 2, ... in this order, a key at
\* every even offset and the value stored under that key at the next odd
\* one, never more than 2N of them, and 2N when the walk has finished.
C10_MapPairs ==
    \A m \in 1..Len(probes) :
       (probes[m].goin /\ ValKind(probes[m].val) = "Map") =>
          /\ Cardinality(ChildrenOf(m)) <= 2 * LenOf(probes[m].val)
          /\ PairsInOrder(probes[m].val, SeqOfSet(ChildrenOf(m)))
          /\ phase = "done" =>
                Cardinality(ChildrenOf(m)) = 2 * LenOf(probes[m].val)

\* C10 witness: a finished walk of a map of two entries: four children
C10_Witness ==
    /\ phase = "done"
    /\ \E m \in 1..Len(probes) :
         /\ probes[m].goin
         /\ ValKind(probes[m].val) = "Map"
         /\ LenOf(probes[m].val) = 2
         /\ Cardinality(ChildrenOf(m)) = 4
         /\ PairsInOrder(probes[m].val, SeqOfSet(ChildrenOf(m)))

\* the run of _call at position p of probes called the start handler of a
\* container, which answered (false, nil)
Declined(p) ==
    /\ probes[p].called = 1
    /\ calls[probes[p].first].kind = "container"
    /\ calls[probes[p].first].start
    /\ ~HandlerOuts(calls[probes[p].first]).goin
    /\ HandlerOuts(calls[probes[p].first]).err = NoErr

\* C11: when the start handler of a container answers (false, nil) nothing
\* below the container is visited and no error is returned for it: the next
\* run of _call is not deeper and the next handler call is not deeper than
\* the start call; on the same level the next run is for a later member of
\* the same container, and a finished walk has gone on to the next member
\* when the container has one.
C11_DeclinedNotEntered ==
    \A p \in 1..Len(probes) :
       Declined(p) =>
          /\ ~probes[p].goin
          /\ probes[p].err = NoErr
          /\ ~(phase = "error" /\ Len(calls) = probes[p].first)
          /\ Len(calls) > probes[p].first =>
                calls[probes[p].first + 1].depth <= calls[probes[p].first].depth
          /\ p < Len(probes) =>
                /\ probes[p + 1].level <= probes[p].level
                /\ probes[p + 1].level = probes[p].level =>
                      /\ probes[p + 1].parent = probes[p].parent
                      /\ probes[p + 1].offset > probes[p].offset
          /\ (phase = "done" /\ probes[p].level > 1
                /\ probes[p].offset + 1 < Len(Members(probes[p].parent))) =>
                /\ p < Len(probes)
                /\ probes[p + 1].level = probes[p].level
                /\ probes[p + 1].offset = probes[p].offset + 1

\* C11 witness: a finished walk in which the start handler of a pointer that
\* is not nil, a member of a struct, answered (false, nil) and the walk went
\* on to the next member of the struct
C11_Witness ==
    /\ phase = "done"
    /\ \E p \in 1..(Len(probes) - 1) :
         /\ Declined(p)
         /\ probes[p].level > 1
         /\ Len(Members(probes[p].val)) > 0
         /\ probes[p + 1].level = probes[p].level
         /\ probes[p + 1].called = 1

\* C12: the size a container start handler is called with is the number of
\* elements of an array or of a slice that is not nil, twice the number of
\* keys of a map that is not nil, the count the property resolver returns
\* for a struct, 1 for a pointer that is not nil, and 0 for a nil slice, a
\* nil map and a nil pointer.
C12_ContainerSize ==
    \A p \in 1..Len(calls) :
       (calls[p].kind = "container" /\ calls[p].start) =>
          calls[p].size =
             CASE ValKind(calls[p].val) = "Array" -> Len(heap[calls[p].val].kids)
               [] ValKind(calls[p].val) = "Slice" ->
                     IF IsNil(calls[p].val) THEN 0 ELSE Len(heap[calls[p].val].kids)
               [] ValKind(calls[p].val) = "Map" ->
                     IF IsNil(calls[p].val) THEN 0
                     ELSE 2 * Cardinality(KeysOf(calls[p].val))
               [] ValKind(calls[p].val) = "Struct" ->
                     _structProperties(trav[1], calls[p].val).size
               [] ValKind(calls[p].val) = "Ptr" ->
                     IF IsNil(calls[p].val) THEN 0 ELSE 1

\* C12 witness: a start handler has been called with size 4 for a map of two
\* keys
C12_Witness ==
    \E p \in 1..Len(calls) :
       /\ calls[p].kind = "container"
       /\ calls[p].start
       /\ ValKind(calls[p].val) = "Map"
       /\ Cardinality(KeysOf(calls[p].val)) = 2
       /\ calls[p].size = 4

\* a start handler has been called with the size 6 for the struct Inner0 of
\* five properties, the last of the order 5
C12_WitnessKinds ==
    \E p \in 1..Len(calls) :
       /\ calls[p].kind = "container"
       /\ calls[p].start
       /\ TypeOf(calls[p].val) = "Inner0"
       /\ calls[p].size = 6

\* the name n begins with the prefix p
StartsWith(n, p) == Len(n) >= Len(p) /\ SubSeq(n, 1, Len(p)) = p

\* what follows the prefix p in the name n
Suffix(n, p) == SubSeq(n, Len(p) + 1, Len(n))

\* the method name n matches one of the recognized binding patterns
Recognised(n) ==
    \/ n \in {NilPtrName, IntXName, UintXName}
    \/ StartsWith(n, ImplPrefix)
    \/ StartsWith(n, AssignPrefix)
    \/ /\ StartsWith(n, KindPrefix)
       /\ Suffix(n, KindPrefix) \in DOMAIN _kindMap
       /\ _kindMap[Suffix(n, KindPrefix)] \notin _containers
    \/ /\ StartsWith(n, ContainerPrefix)
       /\ Suffix(n, ContainerPrefix) \in DOMAIN _kindMap
       /\ _kindMap[Suffix(n, ContainerPrefix)] \in _containers

\* C13: for every method name of the adapter that matches no recognized
\* binding pattern, whatever its length, Which returns "not recognized"
\* without failing, and NewTraveller does not abort.
C13_UnrecognisedIgnored ==
    phase # "new" =>
       \A i \in DOMAIN adapter :
          ~Recognised(adapter[i].n) =>
             /\ ~Which(adapter[i].n).panic
             /\ ~Which(adapter[i].n).ok
             /\ phase # "panic"

\* the methods of the adapter ad that are classified and pass the
\* validation of their signature, by their index
Accepted(ad) ==
    { i \in 0..(Len(ad) - 1) :
        /\ Recognised(ad[i + 1].n)
        /\ IsValidWithReceiver(Which(ad[i + 1].n).itype, ad[i + 1]) }

\* the Traveller t has the method of index i as a binding
Recorded(t, i) ==
    \/ t.nilPtrMethod = i
    \/ \E e \in Range(t.typeMethods) : e[2] = i
    \/ \E e \in Range(t.kindMethods) : e[2] = i

\* C14: absent duplicates, NewTraveller fails exactly when no method was
\* accepted, and the Traveller it returns has every accepted method as a
\* binding: ForIntX, ForUintX and ForNilPtr as well.
C14_AcceptedRecorded ==
    (/\ phase # "new"
     /\ \A i \in DOMAIN adapter : Recognised(adapter[i].n)
     /\ ~SameTypeTwice(adapter)
     /\ ~SameKindTwice(adapter)) =>
       /\ (trav = NilTraveller) <=> (Accepted(adapter) = {})
       /\ trav # NilTraveller =>
             \A i \in Accepted(adapter) : Recorded(trav[1], i)

\* Properties has returned, without a panic
PropsReturned == props # <<>> /\ ~props[1].panic

\* the names and the effective orders of the members Properties returned
NamesOf(r) == [k \in 1..Len(r.fields) |-> r.fields[k].Name]
EffOrders(r) == [k \in 1..Len(r.fields) |-> r.fields[k].IndexForReal]

\* every member returned with a tag rtlorder has the order of the tag, and
\* every member without one has its position in the list as its order
ExplicitKept ==
    PropsReturned =>
       \A k \in 1..Len(props[1].fields) :
          LET p == props[1].fields[k]
              f == fields[p.Index + 1]
          IN  /\ p.Name = f.name
              /\ IF Len(TrimSpace(f.rtlorder)) > 0
                 THEN /\ p.IndexForReal = Atoi(TrimSpace(f.rtlorder)).n
                      /\ ~IntLess(p.IndexForReal, Numeral(k - 1))
                 ELSE p.IndexForReal = Numeral(k - 1)

\* C17: for the members A (0), B (no order), C (3), D (4), E (5) Properties
\* returns, without failing, A,B,C,D,E with the orders 0,1,3,4,5; explicit
\* orders are kept and no member is reassigned downward.  Properties does
\* not: it sorts B, whose order is still -1, in front of A and then rejects
\* the order 0 of A at position 1.
C17_UntaggedKept ==
    /\ (fields = Ordered("") /\ props # <<>>) =>
          /\ ~props[1].panic
          /\ NamesOf(props[1]) = <<"A", "B", "C", "D", "E">>
          /\ EffOrders(props[1]) = <<"0", "1", "3", "4", "5">>
    /\ ExplicitKept

\* C18: the effective orders of the members Properties returns are exactly
\* 0,1,...,n-1: no gap and no two members with the same order.
C18_Dense ==
    PropsReturned =>
       EffOrders(props[1]) = [k \in 1..Len(props[1].fields) |-> Numeral(k - 1)]

\* C18 as the code has it: the effective orders are not negative and do not
\* decrease along the list, each is at least the position of its member, and
\* the members without an explicit order come first with the orders
\* 0,1,...; gaps and equal orders occur.
C18_Monotone ==
    PropsReturned =>
       LET r == props[1]
           n == Len(r.fields)
       IN  /\ \A k \in 1..n : ~IntLess(r.fields[k].IndexForReal, Numeral(k - 1))
           /\ \A k \in 1..(n - 1) :
                 ~IntLess(r.fields[k + 1].IndexForReal, r.fields[k].IndexForReal)
           /\ \A k \in 1..n :
                 Len(TrimSpace(fields[r.fields[k].Index + 1].rtlorder)) = 0 =>
                    /\ r.fields[k].IndexForReal = Numeral(k - 1)
                    /\ \A j \in 1..(k - 1) :
                          Len(TrimSpace(fields[r.fields[j].Index + 1].rtlorder)) = 0

\* C18 witness: Properties has returned two members with the same order and,
\* after them, left an order out
C18_Witness ==
    /\ PropsReturned
    /\ \E j, k \in 1..Len(props[1].fields) :
          /\ j < k
          /\ props[1].fields[j].IndexForReal = props[1].fields[k].IndexForReal
    /\ IntLess(Numeral(Len(props[1].fields)),
               props[1].fields[Len(props[1].fields)].IndexForReal)

\* Properties has returned a negative count for a member with the greatest
\* order an int holds
CountWrapped ==
    /\ PropsReturned
    /\ Len(props[1].fields) > 0
    /\ props[1].fields[Len(props[1].fields)].IndexForReal = "9223372036854775807"
    /\ props[1].size = "-9223372036854775808"

\* the Traveller has no StructPropertier
NoPropertier == trav # NilTraveller /\ (trav[1].conf = <<>> \/ trav[1].conf[1].Propertier = "nil")

\* the declaration positions, counted from 0, of the exported fields of fs
ExportedAt(fs) == { i \in 0..(Len(fs) - 1) : fs[i + 1].exported }

\* C19: without a Propertier the members of a struct are exactly its
\* exported fields in declaration order, each with its declaration position
\* as Index, -1 as IndexForReal and its name, the count is their number, and
\* no unexported field is dispatched: every value _traverse is called with
\* from a struct is the value of an exported field.
C19_DefaultMembers ==
    NoPropertier =>
       /\ \A k \in 1..Len(stack) :
             (stack[k].next # <<>> /\ ValKind(stack[k].val) = "Struct") =>
                LET fs == BaseTypes[TypeOf(stack[k].val)].fields
                    ps == stack[k].next[1].structFields
                IN  /\ { ps[j].Index : j \in 1..Len(ps) } = ExportedAt(fs)
                    /\ \A j \in 1..(Len(ps) - 1) : ps[j].Index < ps[j + 1].Index
                    /\ \A j \in 1..Len(ps) :
                          /\ ps[j].Name = fs[ps[j].Index + 1].name
                          /\ ps[j].IndexForReal = -1
                    /\ stack[k].next[1].size = Cardinality(ExportedAt(fs))
       /\ \A p \in 1..Len(probes) :
             (/\ probes[p].parent # NoVal
              /\ ValKind(probes[p].parent) = "Struct"
              /\ probes[p].iter = 1) =>
                \E i \in ExportedAt(BaseTypes[TypeOf(probes[p].parent)].fields) :
                   heap[probes[p].parent].kids[i + 1] = probes[p].val

\* C19 witness: the walk has been through all the members of S{A, x, P, B},
\* which has the unexported field x in second place
C19_Witness ==
    /\ NoPropertier
    /\ \E k \in 1..Len(stack) :
          /\ TypeOf(stack[k].val) = "S"
          /\ stack[k].next # <<>>
          /\ stack[k].pc = "kids"
          /\ Pending(stack[k]) = {}
          /\ Len(stack[k].next[1].structFields) = 3
    /\ Cardinality({ p \in 1..Len(probes) :
                       probes[p].parent # NoVal /\ TypeOf(probes[p].parent) = "S" }) >= 3

\* the place of a rule in the order of the doc comment of Traveller: the
\* bound interfaces first, then the types, then the kinds
Rank(mt) ==
    IF mt.itype = "ForImpl" THEN 0 ELSE IF mt.itype = "ForAssign" THEN 1 ELSE 2

\* the descriptor of the method with the index m
ItemOf(m) == CHOOSE x \in Range(trav[1].typeOrder) : x.i = m

\* C20: a value goes to a matching interface-bound rule before a matching
\* type-bound one, and to a matching type-bound rule (the one of its exact
\* type if there is one) before a matching kind-bound one, whatever their
\* declaration indices.
C20_InterfaceTypeKind ==
    \A p \in 1..Len(probes) :
       (~Intercepted(probes[p]) /\ probes[p].called = 1) =>
          LET v == probes[p].val
              chosen == ItemOf(calls[probes[p].first].m)
          IN  \A x \in Range(trav[1].typeOrder) :
                 match(x, v).match =>
                    /\ Rank(match(chosen, v)) <= Rank(match(x, v))
                    /\ (Rank(match(chosen, v)) = 1 /\ x.t = TypeOf(v)) =>
                          chosen.t = TypeOf(v)

\* no call on the TravContext is in progress
Quiet == \A g \in Goroutines : callers[g].pc = "idle"

\* PutLocal returns the context it was called on
PutReturnsSelf ==
    \A g \in Goroutines :
       (callers[g].op = "put" /\ callers[g].pc = "done") => callers[g].out = <<Self>>

\* once all calls have finished the value under a key is the one of a last
\* PutLocal with the key, a call that no call made after its return follows,
\* and no key that was put is lost
LastPutStays ==
    Quiet =>
       \A k \in CtxKeys :
          IF puts[k].begun
          THEN Load(locals, k).ok /\ Load(locals, k).val \in puts[k].tail
          ELSE ~Load(locals, k).ok

\* C15: PutLocal returns its context; GetLocal(k) returns absent if no
\* PutLocal(k, _) has completed or started and otherwise a value some
\* PutLocal stored under k; once all calls have finished GetLocal(k) returns
\* the value of the last PutLocal on k and no key is lost.
C15_GetAfterStart ==
    /\ PutReturnsSelf
    /\ \A g \in Goroutines :
          (callers[g].op = "get" /\ callers[g].pc = "done") =>
             IF ~callers[g].begun
             THEN ~callers[g].out[1].ok
             ELSE /\ callers[g].out[1].ok
                  /\ callers[g].out[1].val \in puts[callers[g].key].stored
    /\ LastPutStays

\* C15 as the code has it: GetLocal(k) returns absent if no PutLocal(k, _)
\* has started; a value it returns is one some PutLocal stored under k; it
\* returns such a value if a PutLocal(k, _) had returned before it was
\* called; while the only calls of PutLocal(k, _) are in progress it returns
\* absent or such a value.
C15_GetAfterStore ==
    /\ PutReturnsSelf
    /\ \A g \in Goroutines :
          (callers[g].op = "get" /\ callers[g].pc = "done") =>
             /\ ~callers[g].begun => ~callers[g].out[1].ok
             /\ callers[g].out[1].ok =>
                   callers[g].out[1].val \in puts[callers[g].key].stored
             /\ callers[g].ended => callers[g].out[1].ok
    /\ LastPutStays

\* C15 witness: GetLocal has read the value one PutLocal stored under a key
\* while another PutLocal with the key and another value is in progress
C15_Witness ==
    \E g, h \in Goroutines :
       /\ callers[g].op = "get"
       /\ callers[g].pc = "done"
       /\ callers[g].out[1].ok
       /\ callers[h].op = "put"
       /\ callers[h].pc = "called"
       /\ callers[h].key = callers[g].key
       /\ callers[h].val # callers[g].out[1].val

\* all calls have finished after two overlapping calls of PutLocal with one
\* key and a call with the other key
C15_WitnessQuiet ==
    /\ Quiet
    /\ \E k \in CtxKeys : Cardinality(puts[k].tail) = 2
    /\ \A k \in CtxKeys : puts[k].ended

\* the run of _call recorded as pr is the first one for a key of a mapping
IsKeyProbe(pr) ==
    /\ pr.parent # NoVal
    /\ ValKind(pr.parent) = "Map"
    /\ pr.offset % 2 = 0
    /\ pr.iter = 1

\* the keys of the mappings in the order the walk w came to them: the order
\* MapKeys returned them in
KeyOrder(w) ==
    [i \in DOMAIN SelectSeq(w.probes, IsKeyProbe) |->
        SelectSeq(w.probes, IsKeyProbe)[i].val]

\* C16: Traverse leaves the Traveller as NewTraveller built it, and every
\* walk, after others or while another goes on, makes the handler calls the
\* first walk, alone on the fresh Traveller, made.
C16_SameAsAlone ==
    /\ phase \notin {"new", "failed", "panic"} => trav = NewTraveller(adapter, config).t
    /\ \A i \in 1..Len(walks) : walks[i].calls = walks[1].calls

\* C16 amended: Traverse leaves the Traveller as NewTraveller built it, and
\* every walk, after others or while another goes on, makes the handler
\* calls and ends the way the first walk, alone on the fresh Traveller, did
\* if MapKeys gave it the keys of the mappings in the same order.
C16_TravellerUnchanged ==
    /\ phase \notin {"new", "failed", "panic"} => trav = NewTraveller(adapter, config).t
    /\ \A i \in 1..Len(walks) :
          KeyOrder(walks[i]) = KeyOrder(walks[1]) =>
             /\ walks[i].calls = walks[1].calls
             /\ walks[i].result = walks[1].result

\* C16 witness: after the first walk two walks that were under way at the
\* same time have finished, each with the three calls or more of the first
C16_Witness ==
    /\ Len(walks) = 3
    /\ Len(walks[1].calls) >= 3
    /\ \A i \in 1..Len(walks) : walks[i].calls = walks[1].calls

\* a walk is parked after its first handler calls while the other has made
\* calls as well
C16_WitnessInterleaved ==
    /\ parked # <<>>
    /\ Len(parked[1].calls) >= 1
    /\ Len(parked[1].stack) >= 2
    /\ phase = "walking"
    /\ Len(stack) >= 2
    /\ Len(calls) >= 1

\* MatchValue has answered, without a panic, for the ItemType i
Answered(i) == answer # <<>> /\ ~answer[1].panic /\ asked[1].itype = i

\* C22: MatchValue of ForIntX is true exactly for the kinds int, int8, int16,
\* int32 and int64, MatchValue of ForUintX exactly for uint, uint8, uint16,
\* uint32 and uint64, and no value is matched by both.
C22_IntFamilies ==
    /\ Answered("ForIntX") => (answer[1].match <=> asked[1].val.kind \in IntKinds)
    /\ Answered("ForUintX") => (answer[1].match <=> asked[1].val.kind \in UintKinds)
    /\ (Answered("ForIntX") \/ Answered("ForUintX")) =>
          ~(MatchValue("ForIntX", asked[1].val).match
              /\ MatchValue("ForUintX", asked[1].val).match)

\* the first item of typeOrder that matches the value of pr is bound to a
\* type, an interface or a concrete one, and ForNilPtr does not take the
\* value over
TypeBound(pr) ==
    /\ ~Intercepted(pr)
    /\ FirstMatch(trav[1], pr.val) # 0
    /\ trav[1].typeOrder[FirstMatch(trav[1], pr.val)].t # NilType

\* C23: a value whose first matching rule is bound to an interface or to a
\* concrete type gets exactly one handler call, with the arguments of a leaf,
\* and is not entered, container or not: the run of _call makes no frame and
\* answers neither goin nor reEnter, the next run of _call is not deeper, and
\* every call ever made for the value is such a call, never a start or an end
\* call of a container.
C23_TypeBoundLeaf ==
    \A p \in 1..Len(probes) :
       TypeBound(probes[p]) =>
          /\ probes[p].called = 1
          /\ ~probes[p].panic
          /\ ~probes[p].goin
          /\ ~probes[p].reEnter
          /\ calls[probes[p].first].val = probes[p].val
          /\ calls[probes[p].first].kind = "leaf"
          /\ calls[probes[p].first].m =
                trav[1].typeOrder[FirstMatch(trav[1], probes[p].val)].i
          /\ \A q \in 1..Len(calls) :
                calls[q].val = probes[p].val =>
                   /\ calls[q].kind = "leaf"
                   /\ calls[q].start
                   /\ calls[q].size = -1
          /\ p < Len(probes) => probes[p + 1].level <= probes[p].level
          /\ \A k \in 1..Len(stack) :
                stack[k].val = probes[p].val => stack[k].next = NilInfo

\* C23 witness: a finished walk with ContainerEnd in which a slice of two
\* elements, bound by a concrete type, got its one call and nothing else
\* was called
C23_Witness ==
    /\ phase = "done"
    /\ ConfOn("ContainerEnd")
    /\ Len(probes) = 1
    /\ TypeBound(probes[1])
    /\ ValKind(probes[1].val) = "Slice"
    /\ Len(heap[probes[1].val].kids) = 2
    /\ Len(calls) = 1
    /\ calls[1].kind = "leaf"

\* a finished walk in which a pointer that is not nil, a member of a struct
\* and bound by a concrete type, got its one call and the walk went on to
\* the next member
C23_WitnessPtr ==
    /\ phase = "done"
    /\ \E p \in 1..(Len(probes) - 1) :
         /\ TypeBound(probes[p])
         /\ ValKind(probes[p].val) = "Ptr"
         /\ ~IsNil(probes[p].val)
         /\ probes[p].level > 1
         /\ probes[p + 1].level = probes[p].level
         /\ probes[p + 1].called = 1

\* the activations of _traverse under way that enclose the one at position
\* k of the stack, each with the frame of its container
Enclosing(k) == { j \in 1..(k - 1) : stack[j].next # NilInfo }

\* C24: every handler call gets as depth the number of containers with a
\* frame that enclose its value: a call made by the run of _call of an
\* activation with k - 1 activations around it gets k - 1 (0 for the root),
\* every one of these activations has a frame, and the frame of the
\* activation at position k has the depth k, one more than that of its
\* parent (1 for the root).  A call at depth d > 0 is for a child of the
\* container whose start call, at depth d - 1, is the last call before it
\* that is less deep, and an end call has the depth of its start call.
C24_Depth ==
    /\ \A p \in 1..Len(probes) :
          probes[p].called = 1 => calls[probes[p].first].depth = probes[p].level - 1
    /\ \A k \in 1..Len(stack) :
          /\ Cardinality(Enclosing(k)) = k - 1
          /\ stack[k].next # NilInfo =>
                /\ stack[k].next[1].depth = k
                /\ stack[k].next[1].depth = nextDepth(ParentOf(stack, k))
    /\ \A p \in 1..Len(calls) :
          /\ calls[p].depth >= 0
          /\ (calls[p].start /\ calls[p].depth > 0) =>
                \E s \in 1..(p - 1) :
                   /\ calls[s].kind = "container"
                   /\ calls[s].start
                   /\ calls[s].depth = calls[p].depth - 1
                   /\ ChildOf(calls[s].val, calls[p].val)
                   /\ \A q \in (s + 1)..(p - 1) : calls[q].depth >= calls[p].depth
          /\ (calls[p].start /\ calls[p].depth = 0) => DerefReach(root, calls[p].val)
          /\ IsEnd(calls[p]) =>
                \E s \in 1..(p - 1) :
                   /\ calls[s].val = calls[p].val
                   /\ calls[s].kind = "container"
                   /\ calls[s].start
                   /\ calls[s].depth = calls[p].depth
                   /\ \A q \in (s + 1)..(p - 1) : calls[q].depth > calls[p].depth

\* C24 witness: a finished walk with ContainerEnd of a pointer to a struct:
\* the start call of the pointer at depth 0, that of the struct at depth 1,
\* a call for a member at depth 2, the end call of the struct at depth 1 and
\* that of the pointer at depth 0
C24_Witness ==
    /\ phase = "done"
    /\ ConfOn("ContainerEnd")
    /\ \E a, b, c, d, e \in 1..Len(calls) :
         /\ a < b /\ b < c /\ c < d /\ d < e
         /\ calls[a].kind = "container" /\ calls[a].start /\ calls[a].depth = 0
         /\ ValKind(calls[a].val) = "Ptr"
         /\ calls[b].kind = "container" /\ calls[b].start /\ calls[b].depth = 1
         /\ ValKind(calls[b].val) = "Struct"
         /\ calls[c].kind = "leaf" /\ calls[c].depth = 2
         /\ calls[d] = EndOf(calls[b])
         /\ calls[e] = EndOf(calls[a])

\* a walk is three containers deep: the innermost frame has the depth 3
C24_WitnessFrames ==
    /\ phase = "walking"
    /\ Len(stack) >= 3
    /\ stack[3].next # NilInfo
    /\ stack[3].next[1].depth = 3

\* the frame of the container the value of pr is a child of, as it was when
\* the run of _call recorded as pr was made; nil for the root
SlotFrame(pr) ==
    IF pr.level = 1 THEN NilInfo
    ELSE << [depth        |-> pr.level - 1,
             value        |-> pr.parent,
             size         |-> SizeOf(trav[1], ValKind(pr.parent), pr.parent).size,
             offset       |-> pr.offset,
             structFields |-> SizeOf(trav[1], ValKind(pr.parent), pr.parent).fields,
             binding      |-> NoMethod] >>

\* the depth, parent-index and name of a handler call
SlotOf(c) == <<c.depth, c.index, c.name>>

\* C25: a pointer dereferenced by PtrAutoGoIn gets no call and no frame: the
\* next run of _call is made by the same activation for the same slot of the
\* same container, and the handler called in the end for the value pointed to
\* gets the depth, parent-index and name that a handler for the pointer
\* itself gets in that slot, be it one called with callIns (a handler bound
\* to the type of the pointer) or one called with startContainerIns
\* (ForContainerPtr).  While the activation is at work the frame of the
\* container keeps the size and the offset it had when the pointer was
\* dispatched.  The parent-index is not kept for a member of a struct whose
\* Index is not its offset: callIns and _containerIns do not agree on it.
C25_DerefKeepsSlot ==
    /\ \A p \in 1..Len(probes) :
          /\ probes[p].reEnter =>
                /\ probes[p].called = 0
                /\ ~probes[p].goin
                /\ p < Len(probes) =>
                      /\ probes[p + 1].level = probes[p].level
                      /\ probes[p + 1].parent = probes[p].parent
                      /\ probes[p + 1].offset = probes[p].offset
                      /\ probes[p + 1].first = probes[p].first
          /\ (probes[p].iter > 1 /\ probes[p].called = 1) =>
                LET c == calls[probes[p].first]
                    o == probes[p - probes[p].iter + 1]
                IN  /\ o.iter = 1
                    /\ ValKind(o.val) = "Ptr"
                    /\ SlotOf(c) = SlotOf(callIns(SlotFrame(o), o.val))
                    /\ SlotOf(c) = SlotOf(startContainerIns(SlotFrame(o),
                                                            [size |-> 1], o.val))
    /\ \A k \in 2..Len(stack) :
          stack[k].tries > 0 =>
             /\ stack[k - 1].next[1].size =
                   SizeOf(trav[1], ValKind(stack[k - 1].val), stack[k - 1].val).size
             /\ (k = Len(stack) /\ stack[k].pc = "call") =>
                   stack[k - 1].next[1].offset = probes[Len(probes)].offset
             /\ \E i \in 0..(Steps(stack[k - 1]) - 1) :
                   /\ stack[k - 1].i = i + 1
                   /\ stack[k - 1].next[1].offset = ChildAt(stack[k - 1], i).offset
                   /\ DerefReach(ChildAt(stack[k - 1], i).val, stack[k].val)

\* every end call is made with ContainerEnd, by the method and with the size,
\* depth, parent-index, name and value of the start call of its container,
\* the last call before it that is not deeper, which was answered (true, nil)
EndArgs ==
    \A e \in 1..Len(calls) :
       IsEnd(calls[e]) =>
          /\ ConfOn("ContainerEnd")
          /\ \E s \in 1..(e - 1) :
               /\ calls[s].kind = "container"
               /\ calls[s].start
               /\ calls[s].m = calls[e].m
               /\ calls[s].size = calls[e].size
               /\ calls[s].depth = calls[e].depth
               /\ calls[s].index = calls[e].index
               /\ calls[s].name = calls[e].name
               /\ calls[s].val = calls[e].val
               /\ IsStartGo(calls[s])
               /\ \A q \in (s + 1)..(e - 1) : calls[q].depth > calls[e].depth

\* a step that makes an end call ends its activation of _traverse: with the
\* error of the handler the walk returns this error, without it the
\* activation returns nil to its caller, whatever the bool of the handler
EndStep ==
    (Len(calls') = Len(calls) + 1 /\ IsEnd(calls'[Len(calls')])) =>
        /\ probes' = probes
        /\ IF HandlerOuts(calls'[Len(calls')]).err # NoErr
           THEN /\ phase' = "error"
                /\ stack' = <<>>
                /\ walks' = Append(walks, [calls |-> calls', probes |-> probes',
                                           result |-> "error"])
           ELSE IF Len(stack) = 1
           THEN /\ phase' = "done"
                /\ stack' = <<>>
                /\ walks' = Append(walks, [calls |-> calls', probes |-> probes',
                                           result |-> "done"])
           ELSE /\ phase' = phase
                /\ stack' = Pop(stack)
                /\ walks' = walks

\* C26: with ContainerEnd the end call of a container gets the size, depth,
\* parent-index, name and value of its start call, with StartOrEnd false, and
\* of what the end handler returns only the error counts: the bool changes
\* nothing in what the walk does next.
C26_EndLikeStart == []EndArgs /\ [][EndStep]_vars

\* C26 witness: a finished walk in which the end handler of a container that
\* is a member of another one answered (false, nil), with the arguments of
\* the start call, and the handler of the next member was called after it
C26_Witness ==
    /\ phase = "done"
    /\ ConfOn("ContainerEnd")
    /\ \E s, e, x \in 1..Len(calls) :
         /\ s < e
         /\ x = e + 1
         /\ IsStartGo(calls[s])
         /\ calls[e] = EndOf(calls[s])
         /\ ~HandlerOuts(calls[e]).goin
         /\ HandlerOuts(calls[e]).err = NoErr
         /\ calls[e].depth >= 1
         /\ calls[e].size >= 1
         /\ calls[x].start
         /\ calls[x].depth = calls[e].depth

\* the calls made below the start call at position s: the deeper calls that
\* follow it without a call that is not deeper in between
BelowCall(s) ==
    { q \in (s + 1)..Len(calls) :
        \A x \in (s + 1)..q : calls[x].depth > calls[s].depth }

\* the end calls of the container whose start call is at position s: the
\* call that follows the calls below s, when it is the end call of s
Closer(s) ==
    { e \in (s + 1)..Len(calls) :
        /\ calls[e] = EndOf(calls[s])
        /\ \A q \in (s + 1)..(e - 1) : q \in BelowCall(s) }

\* a call at position s is the start call of a container
IsStart(s) == calls[s].kind = "container" /\ calls[s].start

\* the walk has returned
Over == phase \in {"done", "error"}

\* every end call closes exactly one start call, and the start and end calls
\* are nested: of two containers with end calls the one started later is
\* closed first or started after the other was closed
Nested ==
    /\ \A e \in 1..Len(calls) :
          IsEnd(calls[e]) =>
             Cardinality({ s \in 1..(e - 1) : IsStart(s) /\ e \in Closer(s) }) = 1
    /\ \A s \in 1..Len(calls) : IsStart(s) => Cardinality(Closer(s)) <= 1
    /\ \A s, u \in 1..Len(calls) :
          (IsStart(s) /\ IsStart(u) /\ s < u) =>
             \A e \in Closer(s), f \in Closer(u) : f < e \/ e < u

\* no end call is ever made for a value that ForNilPtr takes over, that a
\* type-bound rule matches first, or that no rule matches
NoEndWithoutStart ==
    \A p \in 1..Len(probes) :
       (Intercepted(probes[p]) \/ TypeBound(probes[p]) \/ Unmatched(probes[p])) =>
          \A e \in 1..Len(calls) : IsEnd(calls[e]) => calls[e].val # probes[p].val

\* without ContainerEnd, and for a start call answered false, no end call
NoEndUnlessEntered ==
    \A s \in 1..Len(calls) :
       (IsStart(s) /\ (~ConfOn("ContainerEnd") \/ ~HandlerOuts(calls[s]).goin)) =>
          Closer(s) = {}

\* a handler called below the start call at position s returned an error
HandlerErrBelow(s) == \E q \in BelowCall(s) : Failed(calls[q])

\* the walk has come to its end below the start call at position s: by the
\* error of a handler called below it, or by the binding-missing error of a
\* value below it
AbortedBelow(s) ==
    /\ phase = "error"
    /\ BelowCall(s) = (s + 1)..Len(calls)
    /\ \/ HandlerErrBelow(s)
       \/ /\ probes[Len(probes)].err = "binding is missing"
          /\ probes[Len(probes)].level - 1 > calls[s].depth

\* C27 as stated: in a walk that has returned, with ContainerEnd a container
\* whose start handler answered (true, nil) and below which no handler
\* returned an error has exactly one end call; there is none without
\* ContainerEnd, after a start call answered false, and for a value taken
\* over by ForNilPtr, bound by type or unbound; every end call closes exactly
\* one start call, and start and end calls are nested.
C27_EndCount ==
    /\ Nested
    /\ NoEndWithoutStart
    /\ NoEndUnlessEntered
    /\ Over =>
          \A s \in 1..Len(calls) :
             (IsStartGo(calls[s]) /\ ConfOn("ContainerEnd") /\ ~HandlerErrBelow(s)) =>
                Cardinality(Closer(s)) = 1

\* C27 amended: the same, the container having exactly one end call when the
\* walk did not come to its end below it, be it by the error of a handler
\* or by the binding-missing error of a value no rule matches, and none when
\* it did.
C27_EndCountUnlessAborted ==
    /\ Nested
    /\ NoEndWithoutStart
    /\ NoEndUnlessEntered
    /\ Over =>
          \A s \in 1..Len(calls) :
             (IsStartGo(calls[s]) /\ ConfOn("ContainerEnd")) =>
                Cardinality(Closer(s)) = IF AbortedBelow(s) THEN 0 ELSE 1

\* C27 witness: a finished walk with ContainerEnd in which a container has
\* its end call after the calls for two members, one of them a container
\* whose start handler answered false and that has no end call
C27_Witness ==
    /\ phase = "done"
    /\ ConfOn("ContainerEnd")
    /\ \E s, u \in 1..Len(calls) :
         /\ s < u
         /\ IsStartGo(calls[s])
         /\ Cardinality(Closer(s)) = 1
         /\ u \in BelowCall(s)
         /\ IsStart(u)
         /\ ~HandlerOuts(calls[u]).goin
         /\ Closer(u) = {}
         /\ Cardinality(BelowCall(s)) >= 2

\* a walk with ContainerEnd has returned the binding-missing error for a
\* member of a container that was entered: no handler returned an error and
\* the container has no end call
C27_WitnessMissed ==
    /\ phase = "error"
    /\ ConfOn("ContainerEnd")
    /\ probes[Len(probes)].err = "binding is missing"
    /\ \E s \in 1..Len(calls) :
         /\ IsStartGo(calls[s])
         /\ AbortedBelow(s)
         /\ ~HandlerErrBelow(s)
         /\ Closer(s) = {}

\* the run of _call recorded as pr called a handler for a member of a struct
StructChild(pr) ==
    /\ pr.level > 1
    /\ ValKind(pr.parent) = "Struct"
    /\ pr.called >= 1
    /\ InFields(SlotFrame(pr)[1])

\* the parent-index of the member the frame f stands at: its effective order
\* when that is not negative, its structural index otherwise
MemberIndex(f) ==
    IF f.structFields[f.offset + 1].IndexForReal >= 0
    THEN f.structFields[f.offset + 1].IndexForReal
    ELSE f.structFields[f.offset + 1].Index

\* the runs p and q of _call are for two children of one visit of a value
Siblings(p, q) ==
    /\ p < q
    /\ probes[p].level = probes[q].level
    /\ probes[p].parent = probes[q].parent
    /\ \A j \in p..q : probes[j].level >= probes[p].level

\* C28: among the children of a struct the parent-index a handler gets is the
\* effective order of the member when that is not negative, else its
\* structural index, be the handler a leaf handler or the start handler of a
\* container; and two different members of one struct never get the same
\* parent-index.
C28_MemberIndex ==
    /\ \A p \in 1..Len(probes) :
          StructChild(probes[p]) =>
             calls[probes[p].first].index = MemberIndex(SlotFrame(probes[p])[1])
    /\ \A p, q \in 1..Len(probes) :
          (/\ StructChild(probes[p])
           /\ StructChild(probes[q])
           /\ Siblings(p, q)
           /\ probes[p].offset # probes[q].offset)
          => calls[probes[p].first].index # calls[probes[q].first].index

\* Traverse has come to its end: it returned, or a panic left it
Ended == phase \in {"done", "error", "panic"}

\* C29: Traverse terminates for every finite object graph, the graphs in
\* which a pointer leads back to a value that is being visited included:
\* every walk that was begun comes to its end.
C29_Terminates == (phase = "walking") ~> Ended

\* the method the run of _call recorded as pr hands its value to, NoMethod
\* when it has none
HandlerFor(pr) ==
    IF Intercepted(pr) THEN trav[1].nilPtrMethod
    ELSE IF FirstMatch(trav[1], pr.val) = 0 THEN NoMethod
    ELSE LET mt == match(trav[1].typeOrder[FirstMatch(trav[1], pr.val)], pr.val)
         IN  IF mt.typ # NilType
             THEN IF MapHas(trav[1].typeMethods, mt.typ)
                  THEN MapGet(trav[1].typeMethods, mt.typ) ELSE NoMethod
             ELSE IF mt.kind # Invalid /\ MapHas(trav[1].kindMethods, mt.kind)
             THEN MapGet(trav[1].kindMethods, mt.kind)
             ELSE NoMethod

\* the declared type of the parameter of method m that takes the property
PropertyParam(m) == trav[1].adapter[m + 1].ins[Len(trav[1].adapter[m + 1].ins)]

\* C30: every method NewTraveller accepted can be invoked with every value
\* its rule matches: the declared type of its property parameter holds the
\* value the run of _call hands to it, so that the invocation does not fail.
C30_Invocable ==
    trav # <<>> =>
       \A p \in 1..Len(probes) :
          (IsValid(probes[p].val) /\ HandlerFor(probes[p]) # NoMethod) =>
             AssignableTo(TypeOf(probes[p].val), PropertyParam(HandlerFor(probes[p])))

\* the kinds of Go that are not containers
NonContainerKinds == Kinds \ _containers

\* the methods of the adapter named ForKind and the name of the kind K whose
\* signature is that of a leaf handler, as reflect numbers them
NamedForKind(K) ==
    { i \in 0..(Len(adapter) - 1) :
        /\ adapter[i + 1].n = KindPrefix \o K
        /\ IsValidWithReceiver("ForKind", adapter[i + 1]) }

\* a rule made from a type matches the value of the run of _call recorded as pr
TypeRuleMatches(pr) ==
    \E k \in 1..Len(trav[1].typeOrder) :
       /\ trav[1].typeOrder[k].t # NilType
       /\ match(trav[1].typeOrder[k], pr.val).match

\* C31: for every kind K that is not a container, a method named ForKind and
\* the name of K with the signature of a leaf handler is classified as the
\* rule of the kind K, NewTraveller records it for K, and it is the handler
\* called for every value of the kind K that no earlier rule matches.
C31_KindBound ==
    \A K \in NonContainerKinds : \A i \in NamedForKind(K) :
       /\ phase # "new" =>
             /\ Which(adapter[i + 1].n).ok
             /\ Which(adapter[i + 1].n).itype = "ForKind"
             /\ Which(adapter[i + 1].n).kind = K
       /\ trav # <<>> =>
             /\ MapHas(trav[1].kindMethods, K)
             /\ MapGet(trav[1].kindMethods, K) = i
             /\ \A p \in 1..Len(probes) :
                   (/\ IsValid(probes[p].val)
                    /\ ValKind(probes[p].val) = K
                    /\ ~Intercepted(probes[p])
                    /\ ~TypeRuleMatches(probes[p]))
                   => /\ HandlerFor(probes[p]) = i
                      /\ ~probes[p].panic =>
                            /\ probes[p].called = 1
                            /\ calls[probes[p].first].m = i
                            /\ calls[probes[p].first].kind = "leaf"

\* the run of _call recorded as pr is for a nil pointer that no rule matches,
\* met with PtrAutoGoIn by a Traveller without a ForNilPtr binding
NilAutoPtr(pr) == Unmatched(pr) /\ AutoPtr(pr) /\ IsNil(pr.val)

\* C21: with PtrAutoGoIn a nil pointer that no rule matches, met by a
\* Traveller without a ForNilPtr binding, is ignored whatever
\* IgnoreMissedBinding says: no handler is ever called for it, the run of
\* _call returns no error, nothing below it is visited, and the walk goes on
\* with the next member of the container; a walk that returns an error after
\* it does so for an end handler that failed later.
C21_NilAutoPtrIgnored ==
    \A p \in 1..Len(probes) :
       NilAutoPtr(probes[p]) =>
          /\ Skipped(p)
          /\ probes[p].scanned = Len(trav[1].typeOrder)
          /\ \A q \in 1..Len(calls) : calls[q].val # probes[p].val
          /\ (phase = "error" /\ p = Len(probes)) =>
                /\ Len(calls) >= probes[p].first
                /\ IsEnd(calls[Len(calls)])
                /\ Failed(calls[Len(calls)])

\* C21 witness: a finished walk without IgnoreMissedBinding in which the nil
\* pointer member P of a struct was ignored and the walk went on to the
\* member B, for which a handler was called
C21_Witness ==
    /\ phase = "done"
    /\ ConfOn("PtrAutoGoIn")
    /\ ~ConfOn("IgnoreMissedBinding")
    /\ \E p \in 1..(Len(probes) - 1) :
         /\ NilAutoPtr(probes[p])
         /\ probes[p].level > 1
         /\ probes[p + 1].level = probes[p].level
         /\ probes[p + 1].offset = probes[p].offset + 1
         /\ probes[p + 1].called = 1

\* a walk with IgnoreMissedBinding of a nil pointer alone has returned nil
\* without a handler call
C21_WitnessRoot ==
    /\ phase = "done"
    /\ ConfOn("PtrAutoGoIn")
    /\ ConfOn("IgnoreMissedBinding")
    /\ Len(probes) = 1
    /\ NilAutoPtr(probes[1])
    /\ calls = <<>>

=============================================================================
